---- MODULE Spec2Model ----
(***************************************************************************)
(* PlainGdbAdapter (src/plugins/debugger/gdb/plaingdbadapter.cpp): the     *)
(* adapter that starts a gdb process, prepares and runs the inferior and   *)
(* shuts both down, driven by calls of the owning engine, by the events of *)
(* the gdb process and by the responses to the commands it posted.         *)
(*                                                                         *)
(* Every handler is an operator on a machine record                        *)
(*   [state, listening, gdbProc, pending, trace]                           *)
(* that returns the record after the handler has run to completion.        *)
(* trace lists, in program order, what the handler did: assertions that    *)
(* fired, state changes, commands posted, signals emitted, log lines.      *)
(*                                                                         *)
(* Spec follows the adapter alone, SpecOutput the adapter together with    *)
(* the deliveries of its output collector.                                 *)
(*                                                                         *)
(* KeilParser (src/plugins/baremetal/keilparser.cpp): the output parser    *)
(* that turns the diagnostics of the Keil tool chains into tasks. Its      *)
(* handlers are operators on the parser record; SpecKeil feeds it lines    *)
(* on both channels and flushes.                                           *)
(*                                                                         *)
(* ExamplesWelcomePage (src/plugins/qtsupport/gettingstartedwelcomepage    *)
(* .cpp): openProject, with copyToAlternativeLocation, as an operator that *)
(* returns what it did; SpecWelcome calls it for every example item and    *)
(* every outcome of the file system, the dialog and the project explorer.  *)
(***************************************************************************)
EXTENDS Integers, Sequences, FiniteSets, TLC

\* Bound of the model: how many calls the engine makes on one adapter.
MaxCalls == 4

AdapterStates ==
    { "EngineStarting", "AdapterStarting", "AdapterStarted",
      "InferiorPreparing", "InferiorPrepared", "InferiorPreparationFailed",
      "InferiorStarting", "InferiorRunningRequested", "InferiorRunning",
      "InferiorStartFailed", "InferiorStopping", "InferiorStopped",
      "InferiorShuttingDown", "InferiorShutDown", "InferiorShutdownFailed",
      "AdapterShuttingDown", "AdapterShutDown" }

ResultClasses ==
    { "GdbResultDone", "GdbResultRunning", "GdbResultError", "GdbResultExit" }

\* The "msg" child of a response's data; empty when the record has none.
Msgs == { "", "file not found" }

Responses == [resultClass : ResultClasses, msg : Msgs]

NoResponse == [resultClass |-> "none", msg |-> ""]

\* The start parameters the engine hands to the adapter.
StartParametersChoices ==
    { [executable |-> [absolute |-> TRUE, path |-> "/bin/app"],
       processArgs |-> << >>, workingDir |-> "", environment |-> << >>],
      [executable |-> [absolute |-> FALSE, path |-> "app"],
       processArgs |-> <<"-v">>, workingDir |-> "/w", environment |-> <<"A=1">>],
      [executable |-> [absolute |-> TRUE, path |-> "/bin/app"],
       processArgs |-> <<"-v", "x">>, workingDir |-> "", environment |-> << >>] }

\* What m_engine->inferiorPid() may return.
PidValues == { -1, 0, 4711 }

\* ProjectExplorer::Task as KeilParser uses it: a default-constructed or
\* cleared task is null (taskId 0), a task built from its fields is not.
NullTask ==
    [taskId |-> 0, type |-> "Unknown", description |-> "", file |-> "",
     line |-> -1, category |-> "", formats |-> << >>]

VARIABLES
    state,            \* the AdapterState, shared with the engine
    listening,        \* m_outputCollector is listening
    gdbProc,          \* m_gdbProc: "NotRunning", "Starting", "Running", "Crashed"
    pending,          \* commands posted and not yet answered, oldest first
    startParameters,  \* read-only configuration
    trace,            \* what the last handler did, in program order
    lastOp,           \* the last handler that ran
    pre,              \* the AdapterState when it was entered
    resp,             \* the response it was given (NoResponse: none;
                      \*   for the process exit, the exit status)
    calls,            \* calls the engine has made
    sdPath,           \* progress on the path shutdown-in-InferiorRunning,
                      \*   kill done, exit done, process exit (0: not on it)
    sdCmds,           \* the commands posted on that path so far
    killsPosted,      \* how often this adapter has posted kill
    exitsPosted,      \* how often this adapter has posted -gdb-exit
    sideChannel,      \* the chunks m_outputCollector has received, in order
    debuggeeOutput,   \* the chunks readDebugeeOutput was called with
    parser,           \* a KeilParser with the parser and the task list
                      \*   behind it
    input,            \* what the KeilParser was fed, in order
    exampleItem,      \* the ExampleItem openProject is called with
    desktop,          \* the files on disk, the user's answers to the
                      \*   dialog and how opening the project goes
    page              \* the ExamplesWelcomePage: whether openProject has
                      \*   run, and what it did, in program order

adapterVars == << state, listening, gdbProc, pending, startParameters, trace,
                  lastOp, pre, resp, calls, sdPath, sdCmds, killsPosted,
                  exitsPosted >>

outputVars == << sideChannel, debuggeeOutput >>

keilVars == << parser, input >>

welcomeVars == << exampleItem, desktop, page >>

vars == << adapterVars, outputVars, keilVars, welcomeVars >>

---------------------------------------------------------------------------
(* Effects *)

Eff(k, a, b, c) == [k |-> k, a |-> a, b |-> b, c |-> c]

Did(m, e) == [m EXCEPT !.trace = Append(@, e)]

\* QTC_ASSERT(cond, qDebug() << state()): a failed condition is logged and
\* the action (a qDebug line, never a return) runs; the handler goes on.
QTC_ASSERT(m, cond, text) ==
    IF cond THEN m ELSE Did(m, Eff("assert", text, m.state, ""))

debugMessage(m, text) == Did(m, Eff("debugMessage", text, "", ""))

\* AbstractGdbAdapter::setState hands the new state to the engine.
setState(m, s) ==
    Did([m EXCEPT !.state = s], Eff("setState", s, "", ""))

\* GdbEngine::postCommand: the command joins the queue of pending commands
\* with its flags and its callback ("" when it has none).
postCommand(m, cmd, flags, cb) ==
    Did([m EXCEPT !.pending =
            Append(@, [cmd |-> cmd, flags |-> flags, cb |-> cb])],
        Eff("postCommand", cmd, flags, cb))

\* The engine's slots run inside emit (direct connections). The one that
\* moves the AdapterState: the process exit that ends AdapterShuttingDown.
engineSlot(m, signal) ==
    IF signal = "adapterShutDown" /\ m.state = "AdapterShuttingDown"
    THEN setState(m, "AdapterShutDown")
    ELSE m

emit(m, signal, arg) ==
    engineSlot(Did(m, Eff("emit", signal, arg, "")), signal)

RECURSIVE join(_, _)
join(list, sep) ==
    IF list = << >> THEN ""
    ELSE IF Len(list) = 1 THEN list[1]
    ELSE list[1] \o sep \o join(Tail(list), sep)

prepend(list, x) == <<x>> \o list

\* QFileInfo::absoluteFilePath: a relative path is resolved against the
\* current directory.
absoluteFilePath(fi) ==
    IF fi.absolute THEN fi.path ELSE "/cwd/" \o fi.path

\* AbstractGdbAdapter's message builders: each wraps the reason it is given.
msgInferiorStopFailed(why) == "msgInferiorStopFailed(" \o why \o ")"

msgGdbStopFailed(why) == "msgGdbStopFailed(" \o why \o ")"

Posts(t) == SelectSeq(t, LAMBDA e : e.k = "postCommand")

Emits(t) == SelectSeq(t, LAMBDA e : e.k = "emit")

Asserts(t) == SelectSeq(t, LAMBDA e : e.k = "assert")

SetStates(t) == SelectSeq(t, LAMBDA e : e.k = "setState")

Kinds(t, k) == SelectSeq(t, LAMBDA e : e.k = k)

PostedCmds(t) == [i \in 1 .. Len(Posts(t)) |-> Posts(t)[i].a]

EmittedSignals(t) == [i \in 1 .. Len(Emits(t)) |-> Emits(t)[i].a]

---------------------------------------------------------------------------
(* The handlers of PlainGdbAdapter *)

\* startAdapter without the return after the failed listen.
startAdapter_noReturn(m, listenOk) ==
    LET m1 == QTC_ASSERT(m, m.state = "EngineStarting", "startAdapter")
        m2 == setState(m1, "AdapterStarting")
        m3 == debugMessage(m2, "TRYING TO START ADAPTER")
        gdbArgs0 == prepend(prepend(<< >>, "mi"), "-i")
        m4 == Did([m3 EXCEPT !.listening = listenOk],
                  Eff("listen", IF listenOk THEN "ok" ELSE "failed", "", ""))
        m5 == IF ~listenOk
              THEN emit(m4, "adapterStartFailed",
                        "Cannot set up communication with child process: "
                            \o "errorString")
              ELSE m4
        gdbArgs == prepend(gdbArgs0, "--tty=" \o "serverName")
    IN  Did([m5 EXCEPT !.gdbProc = IF @ = "NotRunning" THEN "Starting" ELSE @],
            Eff("start", "gdb", join(gdbArgs, " "), m5.gdbProc))

startAdapter(m, listenOk) ==
    LET m1 == QTC_ASSERT(m, m.state = "EngineStarting", "startAdapter")
        m2 == setState(m1, "AdapterStarting")
        m3 == debugMessage(m2, "TRYING TO START ADAPTER")
        gdbArgs0 == prepend(prepend(<< >>, "mi"), "-i")
        m4 == Did([m3 EXCEPT !.listening = listenOk],
                  Eff("listen", IF listenOk THEN "ok" ELSE "failed", "", ""))
    IN  IF ~listenOk
        THEN emit(m4, "adapterStartFailed",
                  "Cannot set up communication with child process: "
                      \o "errorString")
        ELSE
          LET gdbArgs == prepend(gdbArgs0, "--tty=" \o "serverName")
              m5 == IF startParameters.workingDir # ""
                    THEN Did(m4, Eff("setWorkingDirectory",
                                     startParameters.workingDir, "", ""))
                    ELSE m4
              m6 == IF startParameters.environment # << >>
                    THEN Did(m5, Eff("setEnvironment",
                                     join(startParameters.environment, ";"),
                                     "", ""))
                    ELSE m5
          IN  Did([m6 EXCEPT !.gdbProc =
                      IF @ = "NotRunning" THEN "Starting" ELSE @],
                  Eff("start", "gdb", join(gdbArgs, " "), m6.gdbProc))

\* handleGdbStarted without the emit.
handleGdbStarted_noEmit(m) ==
    LET m1 == QTC_ASSERT(m, m.state = "AdapterStarting", "handleGdbStarted")
    IN  setState(m1, "AdapterStarted")

handleGdbStarted(m) ==
    LET m1 == QTC_ASSERT(m, m.state = "AdapterStarting", "handleGdbStarted")
        m2 == setState(m1, "AdapterStarted")
    IN  emit(m2, "adapterStarted", "")

handleGdbError(m, error) ==
    LET m1 == debugMessage(m, "PLAIN ADAPTER, HANDLE GDB ERROR")
    IN  emit(m1, "adapterCrashed", "errorMessage:" \o error)

\* prepareInferior without its assertion.
prepareInferior_noAssert(m) ==
    LET m2 == setState(m, "InferiorPreparing")
        m3 == IF startParameters.processArgs # << >>
              THEN postCommand(m2, "-exec-arguments "
                                 \o join(startParameters.processArgs, " "),
                               "NoFlags", "")
              ELSE m2
    IN  postCommand(m3, "-file-exec-and-symbols \""
                          \o absoluteFilePath(startParameters.executable)
                          \o "\"",
                    "NoFlags", "handleFileExecAndSymbols")

\* prepareInferior that registers handleFileExecAndSymbols with the
\* -exec-arguments command as well.
prepareInferior_argsWithCallback(m) ==
    LET m1 == QTC_ASSERT(m, m.state = "AdapterStarted", "prepareInferior")
        m2 == setState(m1, "InferiorPreparing")
        m3 == IF startParameters.processArgs # << >>
              THEN postCommand(m2, "-exec-arguments "
                                 \o join(startParameters.processArgs, " "),
                               "NoFlags", "handleFileExecAndSymbols")
              ELSE m2
    IN  postCommand(m3, "-file-exec-and-symbols \""
                          \o absoluteFilePath(startParameters.executable)
                          \o "\"",
                    "NoFlags", "handleFileExecAndSymbols")

\* prepareInferior that posts -exec-arguments after the load command.
prepareInferior_argsAfterLoad(m) ==
    LET m1 == QTC_ASSERT(m, m.state = "AdapterStarted", "prepareInferior")
        m2 == setState(m1, "InferiorPreparing")
        m3 == postCommand(m2, "-file-exec-and-symbols \""
                                \o absoluteFilePath(startParameters.executable)
                                \o "\"",
                          "NoFlags", "handleFileExecAndSymbols")
    IN  IF startParameters.processArgs # << >>
        THEN postCommand(m3, "-exec-arguments "
                           \o join(startParameters.processArgs, " "),
                         "NoFlags", "")
        ELSE m3

prepareInferior(m) ==
    LET m1 == QTC_ASSERT(m, m.state = "AdapterStarted", "prepareInferior")
        m2 == setState(m1, "InferiorPreparing")
        m3 == IF startParameters.processArgs # << >>
              THEN postCommand(m2, "-exec-arguments "
                                 \o join(startParameters.processArgs, " "),
                               "NoFlags", "")
              ELSE m2
    IN  postCommand(m3, "-file-exec-and-symbols \""
                          \o absoluteFilePath(startParameters.executable)
                          \o "\"",
                    "NoFlags", "handleFileExecAndSymbols")

\* handleFileExecAndSymbols that emits inferiorPrepared without setting the
\* state.
handleFileExecAndSymbols_noSetState(m, response) ==
    LET m1 == QTC_ASSERT(m, m.state = "InferiorPreparing",
                         "handleFileExecAndSymbols")
    IN  IF response.resultClass = "GdbResultDone"
        THEN emit(m1, "inferiorPrepared", "")
        ELSE LET msg == "Starting executable failed:\n" \o response.msg
             IN  emit(setState(m1, "InferiorPreparationFailed"),
                      "inferiorPreparationFailed", msg)

\* handleFileExecAndSymbols that reports the bare message of the response.
handleFileExecAndSymbols_bareMsg(m, response) ==
    LET m1 == QTC_ASSERT(m, m.state = "InferiorPreparing",
                         "handleFileExecAndSymbols")
    IN  IF response.resultClass = "GdbResultDone"
        THEN emit(setState(m1, "InferiorPrepared"), "inferiorPrepared", "")
        ELSE LET msg == response.msg
             IN  emit(setState(m1, "InferiorPreparationFailed"),
                      "inferiorPreparationFailed", msg)

\* handleFileExecAndSymbols that posts the load command again after a
\* failure.
handleFileExecAndSymbols_retry(m, response) ==
    LET m1 == QTC_ASSERT(m, m.state = "InferiorPreparing",
                         "handleFileExecAndSymbols")
    IN  IF response.resultClass = "GdbResultDone"
        THEN emit(setState(m1, "InferiorPrepared"), "inferiorPrepared", "")
        ELSE LET msg == "Starting executable failed:\n" \o response.msg
             IN  postCommand(
                     emit(setState(m1, "InferiorPreparationFailed"),
                          "inferiorPreparationFailed", msg),
                     "-file-exec-and-symbols \""
                         \o absoluteFilePath(startParameters.executable)
                         \o "\"",
                     "NoFlags", "handleFileExecAndSymbols")

handleFileExecAndSymbols(m, response) ==
    LET m1 == QTC_ASSERT(m, m.state = "InferiorPreparing",
                         "handleFileExecAndSymbols")
    IN  IF response.resultClass = "GdbResultDone"
        THEN emit(setState(m1, "InferiorPrepared"), "inferiorPrepared", "")
        ELSE LET msg == "Starting executable failed:\n" \o response.msg
             IN  emit(setState(m1, "InferiorPreparationFailed"),
                      "inferiorPreparationFailed", msg)

\* handleExecRun that takes a Done response for a started inferior too.
handleExecRun_doneIsRunning(m, response) ==
    IF response.resultClass \in { "GdbResultRunning", "GdbResultDone" }
    THEN LET m1 == QTC_ASSERT(m, m.state = "InferiorRunning", "handleExecRun")
             m2 == debugMessage(m1, "INFERIOR STARTED")
         IN  Did(m2, Eff("showStatusMessage", "msgInferiorStarted", "", ""))
    ELSE LET m1 == QTC_ASSERT(m, m.state = "InferiorRunningRequested",
                              "handleExecRun")
             msg == response.msg
         IN  emit(setState(m1, "InferiorStartFailed"),
                  "inferiorStartFailed", msg)

handleExecRun(m, response) ==
    IF response.resultClass = "GdbResultRunning"
    THEN LET m1 == QTC_ASSERT(m, m.state = "InferiorRunning", "handleExecRun")
             m2 == debugMessage(m1, "INFERIOR STARTED")
         IN  Did(m2, Eff("showStatusMessage", "msgInferiorStarted", "", ""))
    ELSE LET m1 == QTC_ASSERT(m, m.state = "InferiorRunningRequested",
                              "handleExecRun")
             msg == response.msg
         IN  emit(setState(m1, "InferiorStartFailed"),
                  "inferiorStartFailed", msg)

\* startInferior that posts -exec-run without the RunRequest flag.
startInferior_noRunRequest(m) ==
    LET m1 == QTC_ASSERT(m, m.state = "InferiorStarting", "startInferior")
        m2 == setState(m1, "InferiorRunningRequested")
    IN  postCommand(m2, "-exec-run", "NoFlags", "handleExecRun")

startInferior(m) ==
    LET m1 == QTC_ASSERT(m, m.state = "InferiorStarting", "startInferior")
        m2 == setState(m1, "InferiorRunningRequested")
    IN  postCommand(m2, "-exec-run", "RunRequest", "handleExecRun")

\* interruptInferior that sets InferiorStopping before it signals.
interruptInferior_setsStopping(m, attachedPID, interrupted) ==
    LET m1 == debugMessage(m, "TRYING TO INTERUPT INFERIOR")
    IN  IF attachedPID <= 0
        THEN debugMessage(m1,
                 "TRYING TO INTERRUPT INFERIOR BEFORE PID WAS OBTAINED")
        ELSE LET m2 == Did(setState(m1, "InferiorStopping"),
                           Eff("interruptProcess", ToString(attachedPID),
                               IF interrupted THEN "ok" ELSE "failed", ""))
             IN  IF ~interrupted
                 THEN debugMessage(m2, "CANNOT INTERRUPT "
                                          \o ToString(attachedPID))
                 ELSE m2

\* interruptInferior without the check of the pid.
interruptInferior_noPidCheck(m, attachedPID, interrupted) ==
    LET m1 == debugMessage(m, "TRYING TO INTERUPT INFERIOR")
        m2 == Did(m1, Eff("interruptProcess", ToString(attachedPID),
                          IF interrupted THEN "ok" ELSE "failed", ""))
    IN  IF ~interrupted
        THEN debugMessage(m2, "CANNOT INTERRUPT " \o ToString(attachedPID))
        ELSE m2

interruptInferior(m, attachedPID, interrupted) ==
    LET m1 == debugMessage(m, "TRYING TO INTERUPT INFERIOR")
    IN  IF attachedPID <= 0
        THEN debugMessage(m1,
                 "TRYING TO INTERRUPT INFERIOR BEFORE PID WAS OBTAINED")
        ELSE LET m2 == Did(m1, Eff("interruptProcess", ToString(attachedPID),
                                   IF interrupted THEN "ok" ELSE "failed", ""))
             IN  IF ~interrupted
                 THEN debugMessage(m2, "CANNOT INTERRUPT "
                                          \o ToString(attachedPID))
                 ELSE m2

\* shutdown whose kill case lacks InferiorStopped.
shutdown_stoppedNotKilled(m) ==
    LET m1 == debugMessage(m, "PLAIN ADAPTER SHUTDOWN " \o m.state)
        m2 == Did([m1 EXCEPT !.listening = FALSE],
                  Eff("outputCollectorShutdown", "", "", ""))
    IN  CASE m2.state \in { "InferiorRunningRequested", "InferiorRunning",
                            "InferiorStopping" } ->
               postCommand(setState(m2, "InferiorShuttingDown"),
                           "kill", "NoFlags", "handleKill")
          [] m2.state = "InferiorShuttingDown" ->
               postCommand(
                   setState(QTC_ASSERT(m2, FALSE, "shutdown"),
                            "AdapterShuttingDown"),
                   "-gdb-exit", "NoFlags", "handleExit")
          [] m2.state = "InferiorShutDown" ->
               postCommand(setState(m2, "AdapterShuttingDown"),
                           "-gdb-exit", "NoFlags", "handleExit")
          [] OTHER -> QTC_ASSERT(m2, FALSE, "shutdown")

\* shutdown with a return after the assertion of the InferiorShuttingDown
\* case, instead of the fall through.
shutdown_noFallThrough(m) ==
    LET m1 == debugMessage(m, "PLAIN ADAPTER SHUTDOWN " \o m.state)
        m2 == Did([m1 EXCEPT !.listening = FALSE],
                  Eff("outputCollectorShutdown", "", "", ""))
    IN  CASE m2.state \in { "InferiorRunningRequested", "InferiorRunning",
                            "InferiorStopping", "InferiorStopped" } ->
               postCommand(setState(m2, "InferiorShuttingDown"),
                           "kill", "NoFlags", "handleKill")
          [] m2.state = "InferiorShutDown" ->
               postCommand(setState(m2, "AdapterShuttingDown"),
                           "-gdb-exit", "NoFlags", "handleExit")
          [] OTHER -> QTC_ASSERT(m2, FALSE, "shutdown")

\* shutdown that posts -gdb-exit without a callback.
shutdown_exitNoCallback(m) ==
    LET m1 == debugMessage(m, "PLAIN ADAPTER SHUTDOWN " \o m.state)
        m2 == Did([m1 EXCEPT !.listening = FALSE],
                  Eff("outputCollectorShutdown", "", "", ""))
    IN  CASE m2.state \in { "InferiorRunningRequested", "InferiorRunning",
                            "InferiorStopping", "InferiorStopped" } ->
               postCommand(setState(m2, "InferiorShuttingDown"),
                           "kill", "NoFlags", "handleKill")
          [] m2.state = "InferiorShuttingDown" ->
               postCommand(
                   setState(QTC_ASSERT(m2, FALSE, "shutdown"),
                            "AdapterShuttingDown"),
                   "-gdb-exit", "NoFlags", "handleExit")
          [] m2.state = "InferiorShutDown" ->
               postCommand(setState(m2, "AdapterShuttingDown"),
                           "-gdb-exit", "NoFlags", "")
          [] OTHER -> QTC_ASSERT(m2, FALSE, "shutdown")

\* shutdown that shuts the output collector down only where it has a case.
shutdown_collectorInCases(m) ==
    LET m1 == debugMessage(m, "PLAIN ADAPTER SHUTDOWN " \o m.state)
        m2 == Did([m1 EXCEPT !.listening = FALSE],
                  Eff("outputCollectorShutdown", "", "", ""))
    IN  CASE m2.state \in { "InferiorRunningRequested", "InferiorRunning",
                            "InferiorStopping", "InferiorStopped" } ->
               postCommand(setState(m2, "InferiorShuttingDown"),
                           "kill", "NoFlags", "handleKill")
          [] m2.state = "InferiorShuttingDown" ->
               postCommand(
                   setState(QTC_ASSERT(m2, FALSE, "shutdown"),
                            "AdapterShuttingDown"),
                   "-gdb-exit", "NoFlags", "handleExit")
          [] m2.state = "InferiorShutDown" ->
               postCommand(setState(m2, "AdapterShuttingDown"),
                           "-gdb-exit", "NoFlags", "handleExit")
          [] OTHER -> QTC_ASSERT(m1, FALSE, "shutdown")

shutdown(m) ==
    LET m1 == debugMessage(m, "PLAIN ADAPTER SHUTDOWN " \o m.state)
        m2 == Did([m1 EXCEPT !.listening = FALSE],
                  Eff("outputCollectorShutdown", "", "", ""))
    IN  CASE m2.state \in { "InferiorRunningRequested", "InferiorRunning",
                            "InferiorStopping", "InferiorStopped" } ->
               postCommand(setState(m2, "InferiorShuttingDown"),
                           "kill", "NoFlags", "handleKill")
          [] m2.state = "InferiorShuttingDown" ->
               \* QTC_ASSERT(false, ...), then falls through
               postCommand(
                   setState(QTC_ASSERT(m2, FALSE, "shutdown"),
                            "AdapterShuttingDown"),
                   "-gdb-exit", "NoFlags", "handleExit")
          [] m2.state = "InferiorShutDown" ->
               postCommand(setState(m2, "AdapterShuttingDown"),
                           "-gdb-exit", "NoFlags", "handleExit")
          [] OTHER -> QTC_ASSERT(m2, FALSE, "shutdown")

\* handleKill without the re-invocation of shutdown.
handleKill_noReiterate(m, response) ==
    LET m1 == debugMessage(m, "PLAIN ADAPTER HANDLE KILL "
                                \o response.resultClass)
    IN  IF response.resultClass = "GdbResultDone"
        THEN emit(setState(m1, "InferiorShutDown"), "inferiorShutDown", "")
        ELSE LET msg == msgInferiorStopFailed(response.msg)
             IN  emit(setState(m1, "InferiorShutdownFailed"),
                      "inferiorShutdownFailed", msg)

\* handleKill that re-invokes shutdown after a failed kill as well.
handleKill_reiterateOnFailure(m, response) ==
    LET m1 == debugMessage(m, "PLAIN ADAPTER HANDLE KILL "
                                \o response.resultClass)
    IN  IF response.resultClass = "GdbResultDone"
        THEN shutdown(emit(setState(m1, "InferiorShutDown"),
                           "inferiorShutDown", ""))
        ELSE LET msg == msgInferiorStopFailed(response.msg)
             IN  shutdown(emit(setState(m1, "InferiorShutdownFailed"),
                               "inferiorShutdownFailed", msg))

\* handleKill that sets InferiorShutdownFailed without emitting.
handleKill_failureSilent(m, response) ==
    LET m1 == debugMessage(m, "PLAIN ADAPTER HANDLE KILL "
                                \o response.resultClass)
    IN  IF response.resultClass = "GdbResultDone"
        THEN shutdown(emit(setState(m1, "InferiorShutDown"),
                           "inferiorShutDown", ""))
        ELSE setState(m1, "InferiorShutdownFailed")

\* handleKill that emits before it sets the state.
handleKill_emitFirst(m, response) ==
    LET m1 == debugMessage(m, "PLAIN ADAPTER HANDLE KILL "
                                \o response.resultClass)
    IN  IF response.resultClass = "GdbResultDone"
        THEN shutdown(setState(emit(m1, "inferiorShutDown", ""),
                               "InferiorShutDown"))
        ELSE LET msg == msgInferiorStopFailed(response.msg)
             IN  setState(emit(m1, "inferiorShutdownFailed", msg),
                          "InferiorShutdownFailed")

handleKill(m, response) ==
    LET m1 == debugMessage(m, "PLAIN ADAPTER HANDLE KILL "
                                \o response.resultClass)
    IN  IF response.resultClass = "GdbResultDone"
        THEN shutdown(emit(setState(m1, "InferiorShutDown"),
                           "inferiorShutDown", ""))
        ELSE LET msg == msgInferiorStopFailed(response.msg)
             IN  emit(setState(m1, "InferiorShutdownFailed"),
                      "inferiorShutdownFailed", msg)

\* handleExit that takes an Exit response for a success, too.
handleExit_exitIsDone(m, response) ==
    IF response.resultClass \in { "GdbResultDone", "GdbResultExit" }
    THEN m
    ELSE LET msg == msgGdbStopFailed(response.msg)
         IN  emit(m, "adapterShutdownFailed", msg)

handleExit(m, response) ==
    IF response.resultClass = "GdbResultDone"
    THEN m
    ELSE LET msg == msgGdbStopFailed(response.msg)
         IN  emit(m, "adapterShutdownFailed", msg)

\* handleGdbFinished that only logs.
handleGdbFinished_silent(m) ==
    debugMessage(m, "GDB PROCESS FINISHED")

handleGdbFinished(m) ==
    LET m1 == debugMessage(m, "GDB PROCESS FINISHED")
    IN  emit(m1, "adapterShutDown", "")

---------------------------------------------------------------------------
(* The engine's side of the command channel *)

invoke(m, cb, response) ==
    CASE cb = "handleFileExecAndSymbols" -> handleFileExecAndSymbols(m, response)
      [] cb = "handleExecRun" -> handleExecRun(m, response)
      [] cb = "handleKill" -> handleKill(m, response)
      [] cb = "handleExit" -> handleExit(m, response)
      [] OTHER -> m

\* A result record answers the oldest pending command: the engine takes
\* that command off the queue and dispatches the record to its callback. A
\* ^running that answers a run request makes the engine enter
\* InferiorRunning before the callback is invoked.
handleResultRecord(m, response) ==
    LET cmd == Head(m.pending)
        m1 == Did([m EXCEPT !.pending = Tail(@)],
                  Eff("dispatch", cmd.cmd, cmd.flags, cmd.cb))
        m2 == IF cmd.flags = "RunRequest"
                 /\ response.resultClass = "GdbResultRunning"
              THEN setState(m1, "InferiorRunning")
              ELSE m1
    IN  invoke(m2, cmd.cb, response)

---------------------------------------------------------------------------
(* State machine *)

Machine ==
    [state |-> state, listening |-> listening, gdbProc |-> gdbProc,
     pending |-> pending, trace |-> << >>]

\* The path of the clean shutdown: 1 after shutdown was called in
\* InferiorRunning, 2 after the kill was answered Done, 3 after the exit
\* was answered Done, 4 after the process exit; any other step leaves it.
NextSdPath(op, r) ==
    CASE op = "shutdown" /\ state = "InferiorRunning" -> 1
      [] sdPath = 1 /\ op = "handleKill"
           /\ r.resultClass = "GdbResultDone" -> 2
      [] sdPath = 2 /\ op = "handleExit"
           /\ r.resultClass = "GdbResultDone" -> 3
      [] sdPath = 3 /\ op = "handleGdbFinished" -> 4
      [] OTHER -> 0

\* How often x occurs in the sequence q.
Count(q, x) == Len(SelectSeq(q, LAMBDA e : e = x))

Commit(op, r, m) ==
    /\ state' = m.state
    /\ listening' = m.listening
    /\ gdbProc' = m.gdbProc
    /\ pending' = m.pending
    /\ trace' = m.trace
    /\ lastOp' = op
    /\ pre' = state
    /\ resp' = r
    /\ sdPath' = NextSdPath(op, r)
    /\ sdCmds' = IF NextSdPath(op, r) = 0 THEN << >>
                 ELSE IF NextSdPath(op, r) = 1 THEN PostedCmds(m.trace)
                 ELSE sdCmds \o PostedCmds(m.trace)
    /\ killsPosted' = killsPosted + Count(PostedCmds(m.trace), "kill")
    /\ exitsPosted' = exitsPosted + Count(PostedCmds(m.trace), "-gdb-exit")
    /\ UNCHANGED << startParameters, outputVars, keilVars, welcomeVars >>

EngineCall(op, m) ==
    /\ calls < MaxCalls
    /\ calls' = calls + 1
    /\ Commit(op, NoResponse, m)

---------------------------------------------------------------------------
(* ExamplesWelcomePage (src/plugins/qtsupport/gettingstartedwelcomepage.cpp) *)

\* Bound of the model: how many files an example lists to be opened.
MaxFiles == 2

\* A path is a directory and a file name; the empty QString has neither.
Path(dir, name) == [dir |-> dir, name |-> name]

EmptyPath == Path("", "")

isEmpty(path) == path = EmptyPath

ProjectDir == "/opt/qt/examples/calc"

SharedDir == "/opt/qt/shared"

DestBaseDir == "/home/u"

ProFile == Path(ProjectDir, "calc.pro")

MainFile == Path(ProjectDir, "main.cpp")

ExampleFiles ==
    { MainFile, Path(ProjectDir, "calc.h"), Path(SharedDir, "util.h") }

\* QDir::dirName: the last component of a directory.
dirName(dir) ==
    CASE dir = ProjectDir -> "calc"
      [] dir = SharedDir -> "shared"
      [] OTHER -> ""

\* QString::replace(before, after) on a path whose directory is before or
\* does not contain it.
replace(path, before, after) ==
    IF path.dir = before THEN [path EXCEPT !.dir = after] ELSE path

\* removeAll that removes nothing.
removeAll_none(list, x) == list

\* QStringList::removeAll
removeAll(list, x) == SelectSeq(list, LAMBDA e : e # x)

\* QUrl::fromUserInput(docUrl).isValid()
isValid(docUrl) == docUrl # ""

FileLists ==
    UNION { [1 .. n -> ExampleFiles] : n \in 0 .. MaxFiles }

\* The ExampleItems openProject is called with.
ExampleItems ==
    [projectPath : { EmptyPath, ProFile },
     filesToOpen : FileLists,
     mainFile : { EmptyPath, MainFile },
     docUrl : { "", "qthelp://org.qt-project/calc.html" },
     dependencies : { << >>, << SharedDir >> }]

\* What openProject meets: whether the project file exists, whether one of
\* its directories is write-protected, what the user answers in the dialog,
\* whether the chosen location already has the example's directory, whether
\* the copies succeed, and whether the project can be opened.
Desktops ==
    [exists : BOOLEAN,
     needsCopy : BOOLEAN,
     code : { "Copy", "Keep", "Rejected" },
     destExists : BOOLEAN,
     copyOk : BOOLEAN,
     dependencyCopyOk : BOOLEAN,
     openProjectOk : BOOLEAN]

\* The foreach over the dependencies: each is copied next to the project; a
\* failure is warned about and the loop goes on.
RECURSIVE copyDependencies(_, _, _)
copyDependencies(dependencies, targetDir, d) ==
    IF dependencies = << >> THEN << >>
    ELSE LET dependency == Head(dependencies)
             targetFile == targetDir \o "/" \o dirName(dependency)
         IN  << Eff("copyRecursively", dependency, targetFile,
                    d.dependencyCopyOk) >>
             \o ( IF d.dependencyCopyOk THEN << >>
                  ELSE << Eff("warning", "Cannot Copy Project", "", "") >> )
             \o copyDependencies(Tail(dependencies), targetDir, d)

\* copyToAlternativeLocation: the path of the project file to open (empty:
\* none), the files to open as it leaves them, and what it did.
copyToAlternativeLocation(proFileInfo, filesToOpen, dependencies, d) ==
    LET projectDir == proFileInfo.dir
        exec == << Eff("exec", "Copy Project to writable Location?",
                       d.code, "") >>
        exampleDirName == dirName(proFileInfo.dir)
        destBaseDir == DestBaseDir
        setValue == << Eff("setValue", "ProjectsFallbackRoot",
                           destBaseDir, "") >>
        targetDir == destBaseDir \o "/" \o exampleDirName
        copy(ok) == << Eff("copyRecursively", projectDir, targetDir, ok) >>
    IN  IF d.code = "Copy"
        THEN IF d.destExists
             THEN [proFile |-> EmptyPath, filesToOpen |-> filesToOpen,
                   effects |-> exec \o setValue
                       \o << Eff("warning", "Cannot Use Location", "", "") >>]
             ELSE IF d.copyOk
             THEN [proFile |-> Path(targetDir, proFileInfo.name),
                   filesToOpen |->
                       [i \in 1 .. Len(filesToOpen) |->
                           replace(filesToOpen[i], projectDir, targetDir)],
                   effects |-> exec \o setValue \o copy(TRUE)
                       \o copyDependencies(dependencies, targetDir, d)]
             ELSE [proFile |-> EmptyPath, filesToOpen |-> filesToOpen,
                   effects |-> exec \o setValue \o copy(FALSE)
                       \o << Eff("warning", "Cannot Copy Project", "", "") >>]
        ELSE IF d.code = "Keep"
        THEN [proFile |-> proFileInfo, filesToOpen |-> filesToOpen,
              effects |-> exec]
        ELSE [proFile |-> EmptyPath, filesToOpen |-> filesToOpen,
              effects |-> exec]

\* openProject: what it did, in program order.
openProject(item, d) ==
    IF isEmpty(item.projectPath) THEN << >>
    ELSE
    LET filesToOpen0 ==
            IF ~isEmpty(item.mainFile)
            THEN Append(removeAll(item.filesToOpen, item.mainFile),
                        item.mainFile)
            ELSE item.filesToOpen
        proFileInfo == item.projectPath
    IN  IF ~d.exists THEN << >>
        ELSE
        LET copied == IF d.needsCopy
                      THEN copyToAlternativeLocation(proFileInfo, filesToOpen0,
                                                     item.dependencies, d)
                      ELSE [proFile |-> item.projectPath,
                            filesToOpen |-> filesToOpen0,
                            effects |-> << >>]
            proFile == copied.proFile
            filesToOpen == copied.filesToOpen
        IN  IF isEmpty(proFile) THEN copied.effects
            ELSE copied.effects
                 \o << Eff("openProject", proFile, d.openProjectOk, "") >>
                 \o ( IF d.openProjectOk
                      THEN << Eff("openFiles", filesToOpen, "", ""),
                              Eff("activateMode", "MODE_EDIT", "", "") >>
                           \o ( IF isValid(item.docUrl)
                                THEN << Eff("showHelpUrl", item.docUrl,
                                            "ExternalHelpAlways", "") >>
                                ELSE << >> )
                           \o << Eff("activateMode", "MODE_SESSION", "", "") >>
                      ELSE << Eff("showOpenProjectError", "", "", "") >> )

\* An ExamplesWelcomePage whose openProject has not been called.
WelcomeInit ==
    /\ exampleItem = [projectPath |-> EmptyPath, filesToOpen |-> << >>,
                      mainFile |-> EmptyPath, docUrl |-> "",
                      dependencies |-> << >>]
    /\ desktop = [exists |-> FALSE, needsCopy |-> FALSE, code |-> "Rejected",
                  destExists |-> FALSE, copyOk |-> FALSE,
                  dependencyCopyOk |-> FALSE, openProjectOk |-> FALSE]
    /\ page = [called |-> FALSE, effects |-> << >>]

\* A KeilParser after construction, with nothing passed on yet.
KeilInit ==
    /\ parser = [m_lastTask |-> NullTask, m_lines |-> 0, tasks |-> << >>,
                 childStdOut |-> << >>, childStdErr |-> << >>]
    /\ input = << >>

OutputInit ==
    /\ sideChannel = << >>
    /\ debuggeeOutput = << >>

\* The adapter after construction, for given start parameters.
AdapterInit ==
    /\ killsPosted = 0
    /\ exitsPosted = 0
    /\ state = "EngineStarting"
    /\ listening = FALSE
    /\ gdbProc = "NotRunning"
    /\ pending = << >>
    /\ trace = << >>
    /\ lastOp = "constructor"
    /\ pre = "EngineStarting"
    /\ resp = NoResponse
    /\ calls = 0
    /\ sdPath = 0
    /\ sdCmds = << >>

Init ==
    /\ KeilInit
    /\ OutputInit
    /\ WelcomeInit
    /\ startParameters \in StartParametersChoices
    /\ AdapterInit

CallStartAdapter ==
    \E listenOk \in BOOLEAN :
        EngineCall("startAdapter", startAdapter(Machine, listenOk))

CallPrepareInferior ==
    EngineCall("prepareInferior", prepareInferior(Machine))

CallStartInferior ==
    EngineCall("startInferior", startInferior(Machine))

CallInterruptInferior ==
    \E attachedPID \in PidValues, interrupted \in BOOLEAN :
        /\ attachedPID <= 0 => interrupted
        /\ EngineCall("interruptInferior",
                      interruptInferior(Machine, attachedPID, interrupted))

CallShutdown ==
    EngineCall("shutdown", shutdown(Machine))

\* The engine's own state changes between two calls of the adapter.
EngineSetState ==
    /\ \/ state = "InferiorPrepared" /\ state' = "InferiorStarting"
       \/ state = "InferiorRunning" /\ state' = "InferiorStopping"
       \/ state = "InferiorStopping" /\ state' = "InferiorStopped"
    /\ trace' = <<Eff("setState", state', "", "")>>
    /\ lastOp' = "engineSetState"
    /\ pre' = state
    /\ resp' = NoResponse
    /\ sdPath' = 0
    /\ sdCmds' = << >>
    /\ UNCHANGED << listening, gdbProc, pending, startParameters, calls,
                    killsPosted, exitsPosted, outputVars, keilVars,
                    welcomeVars >>

\* QProcess::started
ProcStarted ==
    /\ gdbProc = "Starting"
    /\ Commit("handleGdbStarted", NoResponse,
              handleGdbStarted([Machine EXCEPT !.gdbProc = "Running"]))
    /\ UNCHANGED calls

\* QProcess::error: the process failed to start, or crashed (and then
\* finishes).
ProcError ==
    /\ gdbProc \in { "Starting", "Running" }
    /\ Commit("handleGdbError", NoResponse,
              handleGdbError(
                  [Machine EXCEPT !.gdbProc =
                      IF @ = "Starting" THEN "NotRunning" ELSE "Crashed"],
                  IF gdbProc = "Starting" THEN "FailedToStart" ELSE "Crashed"))
    /\ UNCHANGED calls

\* QProcess::finished
ProcFinished ==
    /\ gdbProc \in { "Running", "Crashed" }
    /\ Commit("handleGdbFinished",
              [resultClass |-> IF gdbProc = "Crashed" THEN "CrashExit"
                               ELSE "NormalExit",
               msg |-> ""],
              handleGdbFinished([Machine EXCEPT !.gdbProc = "NotRunning"]))
    /\ UNCHANGED calls

\* The callback a result record was dispatched to.
DispatchedTo(t) ==
    IF t[1].c = "" THEN "noCallback" ELSE t[1].c

\* gdb answers a pending command.
ResultRecord ==
    /\ gdbProc = "Running"
    /\ pending # << >>
    /\ \E response \in Responses :
          LET m == handleResultRecord(Machine, response)
          IN  Commit(DispatchedTo(m.trace), response, m)
    /\ UNCHANGED calls

\* Output of gdb that answers no command (an unsolicited notification, or
\* output of the inferior on the side channel) while commands are pending:
\* it is not a result record and reaches no callback of the adapter.
AsyncOutput ==
    /\ gdbProc = "Running"
    /\ pending # << >>
    /\ trace' = << >>
    /\ lastOp' = "asyncOutput"
    /\ pre' = state
    /\ resp' = NoResponse
    /\ sdPath' = 0
    /\ sdCmds' = << >>
    /\ UNCHANGED << state, listening, gdbProc, pending, startParameters,
                    calls, killsPosted, exitsPosted, outputVars, keilVars,
                    welcomeVars >>

Next ==
    \/ CallStartAdapter
    \/ CallPrepareInferior
    \/ CallStartInferior
    \/ CallInterruptInferior
    \/ CallShutdown
    \/ EngineSetState
    \/ ProcStarted
    \/ ProcError
    \/ ProcFinished
    \/ ResultRecord
    \/ AsyncOutput

Spec == Init /\ [][Next]_vars

---------------------------------------------------------------------------
(* The side channel *)

\* Bound of the model: how many chunks arrive on the side channel.
MaxChunks == 2

\* Bound of the model: how many calls the engine makes when the side
\* channel is followed as well.
MaxOutputCalls == 3

Chunks == { "out", "err\n" }

\* The connections the constructor makes from m_outputCollector, in order.
Connections_twice ==
    << [signal |-> "byteDelivery", slot |-> "readDebugeeOutput"],
       [signal |-> "byteDelivery", slot |-> "readDebugeeOutput"] >>

Connections ==
    << [signal |-> "byteDelivery", slot |-> "readDebugeeOutput"] >>

\* The engine's slot: the bytes join the debuggee output as they are.
readDebugeeOutput(sink, bytes) == Append(sink, bytes)

\* emit byteDelivery(bytes): every connected slot is called, in the order
\* of connection.
RECURSIVE byteDelivery(_, _, _)
byteDelivery(conns, sink, bytes) ==
    IF conns = << >> THEN sink
    ELSE byteDelivery(Tail(conns),
                      IF Head(conns).signal = "byteDelivery"
                         /\ Head(conns).slot = "readDebugeeOutput"
                      THEN readDebugeeOutput(sink, bytes)
                      ELSE sink,
                      bytes)

\* The output collector, while it listens, receives a chunk of the
\* inferior's output and emits byteDelivery.
ByteDelivery ==
    /\ listening
    /\ Len(sideChannel) < MaxChunks
    /\ \E bytes \in Chunks :
          /\ sideChannel' = Append(sideChannel, bytes)
          /\ debuggeeOutput' = byteDelivery(Connections, debuggeeOutput, bytes)
    /\ UNCHANGED << adapterVars, keilVars, welcomeVars >>

\* The adapter with its side channel: the engine makes up to
\* MaxOutputCalls calls, chunks arrive in between.
NextOutput ==
    \/ /\ calls < MaxOutputCalls
       /\ \/ CallStartAdapter
          \/ CallPrepareInferior
          \/ CallStartInferior
          \/ CallInterruptInferior
          \/ CallShutdown
    \/ EngineSetState
    \/ ProcStarted
    \/ ProcError
    \/ ProcFinished
    \/ ResultRecord
    \/ AsyncOutput
    \/ ByteDelivery

SpecOutput == Init /\ [][NextOutput]_vars

TypeOK ==
    /\ state \in AdapterStates
    /\ listening \in BOOLEAN
    /\ gdbProc \in { "NotRunning", "Starting", "Running", "Crashed" }
    /\ calls \in 0 .. MaxCalls
    /\ sdPath \in 0 .. 4

---------------------------------------------------------------------------
(* KeilParser (src/plugins/baremetal/keilparser.cpp) *)

\* Bound of the model: how many lines and flushes the parser is fed.
MaxLines == 3

\* The lines the parser is fed.
KeilLines ==
    { "Sometext",
      "      int f;  ",
      "\"c:\\foo\\main.c\", line 63: Warning: #1234: Some warning",
      "Error: L6226E: Some error.",
      "*** WARNING C123 IN LINE 13 OF c:\\foo.c: Some warning",
      "*** ERROR #A9 IN 15 (c:\\foo\\dscr.a51, LINE 15): Some error",
      "*** FATAL ERROR L456: Some error",
      "A51 FATAL ERROR -" }

\* rightTrimmed: the line without its trailing white space.
rightTrimmed(line) ==
    IF line = "      int f;  " THEN "      int f;" ELSE line

\* lne.startsWith(' ')
startsWithSpace(lne) == lne = "      int f;"

\* Utils::FileName::fromUserInput: the path with forward slashes.
fromUserInput(path) ==
    CASE path = "c:\\foo\\main.c" -> "c:/foo/main.c"
      [] path = "c:\\foo.c" -> "c:/foo.c"
      [] path = "c:\\foo\\dscr.a51" -> "c:/foo/dscr.a51"
      [] OTHER -> path

NoMatch == [hasMatch |-> FALSE]

\* ^"(.+)", line (\d+).*:\s+(Warning|Error):(\s+|.+)([#|L].+)$
reArmLocated(lne) ==
    IF lne = "\"c:\\foo\\main.c\", line 63: Warning: #1234: Some warning"
    THEN [hasMatch |-> TRUE, FilePath |-> "c:\\foo\\main.c", LineNumber |-> 63,
          MessageType |-> "Warning", Description |-> "#1234: Some warning"]
    ELSE NoMatch

\* ^(Error|Fatal error):\s(.+)$
reArmPlain(lne) ==
    IF lne = "Error: L6226E: Some error."
    THEN [hasMatch |-> TRUE, MessageType |-> "Error",
          Description |-> "L6226E: Some error."]
    ELSE NoMatch

\* ^\*{3} (WARNING|ERROR) (\w+) IN LINE (\d+) OF (.+\.\S+): (.+)$
reMcs51Compiler(lne) ==
    IF lne = "*** WARNING C123 IN LINE 13 OF c:\\foo.c: Some warning"
    THEN [hasMatch |-> TRUE, MessageType |-> "WARNING", MessageCode |-> "C123",
          LineNumber |-> 13, FilePath |-> "c:\\foo.c",
          MessageText |-> "Some warning"]
    ELSE NoMatch

\* ^\*{3} (WARNING|ERROR) (#\w+) IN (\d+) \((.+), LINE \d+\): (.+)$
reMcs51Assembler(lne) ==
    IF lne = "*** ERROR #A9 IN 15 (c:\\foo\\dscr.a51, LINE 15): Some error"
    THEN [hasMatch |-> TRUE, MessageType |-> "ERROR", MessageCode |-> "#A9",
          LineNumber |-> 15, FilePath |-> "c:\\foo\\dscr.a51",
          MessageText |-> "Some error"]
    ELSE NoMatch

\* ^\*{3} (FATAL ERROR) (.+)$
reMcs51Fatal(lne) ==
    IF lne = "*** FATAL ERROR L456: Some error"
    THEN [hasMatch |-> TRUE, MessageType |-> "FATAL ERROR",
          MessageDescription |-> "L456: Some error"]
    ELSE NoMatch

\* ^(A|C)51 FATAL[ |-]ERROR
reToolFatal(lne) ==
    IF lne = "A51 FATAL ERROR -"
    THEN [hasMatch |-> TRUE, key |-> "A"]
    ELSE NoMatch

\* taskType that knows the capitalised keywords only.
taskType_capitalisedOnly(msgType) ==
    IF msgType = "Warning" THEN "Warning"
    ELSE IF msgType = "Error" \/ msgType = "Fatal error" THEN "Error"
    ELSE "Unknown"

taskType(msgType) ==
    IF msgType = "Warning" \/ msgType = "WARNING" THEN "Warning"
    ELSE IF msgType = "Error" \/ msgType = "ERROR"
            \/ msgType = "Fatal error" \/ msgType = "FATAL ERROR"
    THEN "Error"
    ELSE "Unknown"

\* Task(type, description, file, line, category): a task that is not null.
Task(type, descr, file, line, category) ==
    [taskId |-> 1, type |-> type, description |-> descr, file |-> file,
     line |-> line, category |-> category, formats |-> << >>]

isNull(task) == task.taskId = 0

TASK_CATEGORY_COMPILE == "Task.Category.Compile"

\* IOutputParser::stdOutput / stdError: the line goes on to the next parser
\* of the chain on its channel.
IOutputParser_stdOutput(k, line) ==
    [k EXCEPT !.childStdOut = Append(@, line)]

IOutputParser_stdError(k, line) ==
    [k EXCEPT !.childStdErr = Append(@, line)]

\* emit addTask(t, m_lines, 1)
addTask(k, t, linkedOutputLines, skipLines) ==
    [k EXCEPT !.tasks = Append(@, [task |-> t,
                                   linkedOutputLines |-> linkedOutputLines,
                                   skipLines |-> skipLines])]

doFlush(k) ==
    IF isNull(k.m_lastTask) THEN k
    ELSE LET t == k.m_lastTask
             k1 == [k EXCEPT !.m_lastTask = NullTask]
             k2 == addTask(k1, t, k1.m_lines, 1)
         IN  [k2 EXCEPT !.m_lines = 0]

\* newTask that counts the new task's line on top of the lines counted so
\* far.
newTask_keepsLines(k, task) ==
    LET k1 == doFlush(k)
    IN  [k1 EXCEPT !.m_lastTask = task, !.m_lines = @ + 1]

\* newTask that drops the pending task instead of flushing it.
newTask_noFlush(k, task) ==
    [k EXCEPT !.m_lastTask = task, !.m_lines = 1]

newTask(k, task) ==
    LET k1 == doFlush(k)
    IN  [k1 EXCEPT !.m_lastTask = task, !.m_lines = 1]

amendDescription(k, desc) ==
    LET start == Len(k.m_lastTask.description) + 1
        description == k.m_lastTask.description \o "\n" \o desc
        fr == [start |-> start, length |-> Len(description) + 1]
    IN  [k EXCEPT !.m_lastTask.description = description,
                  !.m_lastTask.formats = Append(@, fr),
                  !.m_lines = @ + 1]

\* stdError that does not hand the line to the next parser.
stdError_noPassThrough(k, line) ==
    LET k0 == k
        lne == rightTrimmed(line)
        located == reArmLocated(lne)
        plain == reArmPlain(lne)
    IN  IF located.hasMatch
        THEN newTask(k0, Task(taskType(located.MessageType),
                              located.Description,
                              fromUserInput(located.FilePath),
                              located.LineNumber, TASK_CATEGORY_COMPILE))
        ELSE IF plain.hasMatch
        THEN newTask(k0, Task(taskType(plain.MessageType), plain.Description,
                              "", -1, TASK_CATEGORY_COMPILE))
        ELSE IF startsWithSpace(lne)
        THEN amendDescription(k0, lne)
        ELSE doFlush(k0)

stdError(k, line) ==
    LET k0 == IOutputParser_stdError(k, line)
        lne == rightTrimmed(line)
        located == reArmLocated(lne)
        plain == reArmPlain(lne)
    IN  IF located.hasMatch
        THEN newTask(k0, Task(taskType(located.MessageType),
                              located.Description,
                              fromUserInput(located.FilePath),
                              located.LineNumber, TASK_CATEGORY_COMPILE))
        ELSE IF plain.hasMatch
        THEN newTask(k0, Task(taskType(plain.MessageType), plain.Description,
                              "", -1, TASK_CATEGORY_COMPILE))
        ELSE IF startsWithSpace(lne)
        THEN amendDescription(k0, lne)
        ELSE doFlush(k0)

\* The first two patterns of stdOutput end without a return: the checks
\* that follow them run on the same line.
stdOutput(k, line) ==
    LET k0 == IOutputParser_stdOutput(k, line)
        lne == rightTrimmed(line)
        compiler == reMcs51Compiler(lne)
        assembler == reMcs51Assembler(lne)
        fatal == reMcs51Fatal(lne)
        tool == reToolFatal(lne)
        k1 == IF compiler.hasMatch
              THEN newTask(k0, Task(taskType(compiler.MessageType),
                                    compiler.MessageCode \o ": "
                                        \o compiler.MessageText,
                                    fromUserInput(compiler.FilePath),
                                    compiler.LineNumber,
                                    TASK_CATEGORY_COMPILE))
              ELSE k0
        k2 == IF assembler.hasMatch
              THEN newTask(k1, Task(taskType(assembler.MessageType),
                                    assembler.MessageCode \o ": "
                                        \o assembler.MessageText,
                                    fromUserInput(assembler.FilePath),
                                    assembler.LineNumber,
                                    TASK_CATEGORY_COMPILE))
              ELSE k1
    IN  IF fatal.hasMatch
        THEN newTask(k2, Task(taskType(fatal.MessageType),
                              fatal.MessageDescription, "", -1,
                              TASK_CATEGORY_COMPILE))
        ELSE IF tool.hasMatch
        THEN LET descr == IF tool.key = "A" THEN "Assembler fatal error"
                          ELSE IF tool.key = "C" THEN "Compiler fatal error"
                          ELSE ""
             IN  newTask(k2, Task("Error", descr, "", -1,
                                  TASK_CATEGORY_COMPILE))
        ELSE IF startsWithSpace(lne)
        THEN amendDescription(k2, lne)
        ELSE doFlush(k2)

\* A line of the tool's standard output reaches the parser.
StdOutputLine ==
    /\ Len(input) < MaxLines
    /\ \E line \in KeilLines :
          /\ parser' = stdOutput(parser, line)
          /\ input' = Append(input, [channel |-> "stdout", line |-> line])
    /\ UNCHANGED << adapterVars, outputVars, welcomeVars >>

\* A line of the tool's standard error reaches the parser.
StdErrorLine ==
    /\ Len(input) < MaxLines
    /\ \E line \in KeilLines :
          /\ parser' = stdError(parser, line)
          /\ input' = Append(input, [channel |-> "stderr", line |-> line])
    /\ UNCHANGED << adapterVars, outputVars, welcomeVars >>

\* IOutputParser::flush, which calls doFlush.
Flush ==
    /\ Len(input) < MaxLines
    /\ parser' = doFlush(parser)
    /\ input' = Append(input, [channel |-> "flush", line |-> ""])
    /\ UNCHANGED << adapterVars, outputVars, welcomeVars >>

KeilSpecInit ==
    /\ KeilInit
    /\ OutputInit
    /\ WelcomeInit
    /\ startParameters = CHOOSE p \in StartParametersChoices :
                             p.processArgs = << >>
    /\ AdapterInit

NextKeil ==
    \/ StdOutputLine
    \/ StdErrorLine
    \/ Flush

SpecKeil == KeilSpecInit /\ [][NextKeil]_vars

---------------------------------------------------------------------------
(* The welcome page, for every example and every desktop *)

WelcomeSpecInit ==
    /\ KeilInit
    /\ OutputInit
    /\ startParameters = CHOOSE p \in StartParametersChoices :
                             p.processArgs = << >>
    /\ AdapterInit
    /\ exampleItem \in ExampleItems
    /\ desktop \in Desktops
    /\ page = [called |-> FALSE, effects |-> << >>]

\* The user clicks the example: openProject runs.
OpenProject ==
    /\ ~page.called
    /\ page' = [called |-> TRUE, effects |-> openProject(exampleItem, desktop)]
    /\ UNCHANGED << exampleItem, desktop, adapterVars, outputVars, keilVars >>

NextWelcome == OpenProject

SpecWelcome == WelcomeSpecInit /\ [][NextWelcome]_vars

---------------------------------------------------------------------------
(* Vocabulary of the properties *)

Asserted == Asserts(trace) # << >>

NoEffect ==
    /\ state = pre
    /\ Posts(trace) = << >>
    /\ Emits(trace) = << >>

\* The states in which shutdown has a case that is not an assertion.
ShutdownAccepted ==
    { "InferiorRunningRequested", "InferiorRunning", "InferiorStopping",
      "InferiorStopped", "InferiorShutDown" }

ListenFailed == Kinds(trace, "listen") = <<Eff("listen", "failed", "", "")>>

ListenOk == Kinds(trace, "listen") = <<Eff("listen", "ok", "", "")>>

PostedWith(i, cmd, flags, cb) ==
    /\ i <= Len(Posts(trace))
    /\ Posts(trace)[i] = Eff("postCommand", cmd, flags, cb)

LoadCommand ==
    "-file-exec-and-symbols \""
        \o absoluteFilePath(startParameters.executable) \o "\""

---------------------------------------------------------------------------
(* C1 *)

\* C1 as stated: an operation invoked while the AdapterState is not its
\* precondition state leaves the state unchanged, posts no command and
\* emits no notification.
C1_RejectedInWrongState ==
    ( \/ lastOp = "startAdapter" /\ pre # "EngineStarting"
      \/ lastOp = "prepareInferior" /\ pre # "AdapterStarted"
      \/ lastOp = "startInferior" /\ pre # "InferiorStarting"
      \/ lastOp = "handleFileExecAndSymbols" /\ pre # "InferiorPreparing"
      \/ lastOp = "handleExecRun" /\ pre # "InferiorRunningRequested"
      \/ lastOp = "shutdown" /\ pre \notin ShutdownAccepted )
    => NoEffect

\* C1 amended: an operation invoked outside its precondition state logs the
\* failed assertion and then does what it does in its precondition state;
\* shutdown in InferiorShuttingDown falls through to the exit step. Only
\* shutdown in a state without a shutdown case leaves the state unchanged,
\* posts no command and emits no notification.
C1_WrongStateProceeds ==
    /\ lastOp = "startAdapter" /\ pre # "EngineStarting"
          => /\ Asserted
             /\ state = "AdapterStarting"
             /\ \/ ListenFailed /\ EmittedSignals(trace) = <<"adapterStartFailed">>
                \/ ListenOk /\ Len(Kinds(trace, "start")) = 1
    /\ lastOp = "prepareInferior" /\ pre # "AdapterStarted"
          => /\ Asserted
             /\ state = "InferiorPreparing"
             /\ PostedWith(Len(Posts(trace)), LoadCommand, "NoFlags",
                           "handleFileExecAndSymbols")
    /\ lastOp = "startInferior" /\ pre # "InferiorStarting"
          => /\ Asserted
             /\ state = "InferiorRunningRequested"
             /\ PostedCmds(trace) = <<"-exec-run">>
    /\ lastOp = "handleFileExecAndSymbols" /\ pre # "InferiorPreparing"
          => /\ Asserted
             /\ IF resp.resultClass = "GdbResultDone"
                THEN /\ state = "InferiorPrepared"
                     /\ EmittedSignals(trace) = <<"inferiorPrepared">>
                ELSE /\ state = "InferiorPreparationFailed"
                     /\ EmittedSignals(trace) = <<"inferiorPreparationFailed">>
    /\ lastOp = "handleExecRun" /\ pre # "InferiorRunningRequested"
          => IF resp.resultClass = "GdbResultRunning"
             THEN Posts(trace) = << >> /\ Emits(trace) = << >>
             ELSE /\ Asserted
                  /\ state = "InferiorStartFailed"
                  /\ EmittedSignals(trace) = <<"inferiorStartFailed">>
    /\ lastOp = "shutdown" /\ pre = "InferiorShuttingDown"
          => /\ Asserted
             /\ state = "AdapterShuttingDown"
             /\ PostedCmds(trace) = <<"-gdb-exit">>
    /\ lastOp = "shutdown" /\ pre \notin ShutdownAccepted \cup {"InferiorShuttingDown"}
          => Asserted /\ NoEffect

\* shutdown ran in InferiorShuttingDown and fell through to the exit step.
C1_Witness ==
    /\ lastOp = "shutdown"
    /\ pre = "InferiorShuttingDown"
    /\ state = "AdapterShuttingDown"

---------------------------------------------------------------------------
(* C2 *)

\* C2 as stated: for every operation of the state table an invocation
\* while the AdapterState differs from the listed precondition state fires
\* an assertion.
C2_EveryOperationFlags ==
    ( \/ lastOp = "startAdapter" /\ pre # "EngineStarting"
      \/ lastOp = "prepareInferior" /\ pre # "AdapterStarted"
      \/ lastOp = "startInferior" /\ pre # "InferiorStarting"
      \/ lastOp = "interruptInferior" /\ pre # "InferiorRunning"
      \/ lastOp = "shutdown"
           /\ pre \notin { "InferiorRunning", "InferiorStopping",
                           "InferiorStopped", "InferiorShutDown" }
      \/ lastOp = "handleKill" /\ pre # "InferiorShuttingDown"
      \/ lastOp = "handleExit" /\ pre # "AdapterShuttingDown"
      \/ lastOp = "handleGdbFinished" /\ pre # "AdapterShuttingDown" )
    => Asserted

\* C2 amended: startAdapter, prepareInferior and startInferior log an
\* assertion exactly when called outside their precondition state, and
\* shutdown exactly when called outside InferiorRunningRequested,
\* InferiorRunning, InferiorStopping, InferiorStopped and InferiorShutDown;
\* interruptInferior, handleKill, handleExit and handleGdbFinished check no
\* state and run unflagged in every state.
C2_FlaggedWhereAsserted ==
    /\ lastOp = "startAdapter" => (Asserted <=> pre # "EngineStarting")
    /\ lastOp = "prepareInferior" => (Asserted <=> pre # "AdapterStarted")
    /\ lastOp = "startInferior" => (Asserted <=> pre # "InferiorStarting")
    /\ lastOp = "shutdown" => (Asserted <=> pre \notin ShutdownAccepted)
    /\ lastOp \in { "interruptInferior", "handleKill", "handleExit",
                    "handleGdbFinished" } => ~Asserted

\* The kill response arrived outside InferiorShuttingDown and was handled
\* without an assertion.
C2_Witness ==
    /\ lastOp = "handleKill"
    /\ pre # "InferiorShuttingDown"
    /\ ~Asserted

---------------------------------------------------------------------------
(* C3 *)

\* C3: on the path shutdown in InferiorRunning, Done for the kill, Done for
\* the exit, process exit, the states are InferiorShuttingDown, then
\* (through InferiorShutDown, shutdown re-invoked) AdapterShuttingDown, and
\* at last AdapterShutDown; the commands posted on the path are exactly
\* kill and -gdb-exit.
C3_CleanShutdownPath ==
    /\ sdPath = 1 => state = "InferiorShuttingDown" /\ sdCmds = <<"kill">>
    /\ sdPath = 2 =>
          /\ state = "AdapterShuttingDown"
          /\ sdCmds = <<"kill", "-gdb-exit">>
          /\ SetStates(trace) = << Eff("setState", "InferiorShutDown", "", ""),
                                   Eff("setState", "AdapterShuttingDown", "", "") >>
    /\ sdPath = 3 =>
          /\ state = "AdapterShuttingDown"
          /\ sdCmds = <<"kill", "-gdb-exit">>
    /\ sdPath = 4 =>
          /\ state = "AdapterShutDown"
          /\ sdCmds = <<"kill", "-gdb-exit">>

\* The whole path was taken.
C3_Witness ==
    /\ sdPath = 4
    /\ lastOp = "handleGdbFinished"
    /\ state = "AdapterShutDown"

---------------------------------------------------------------------------
(* C4 *)

\* C4 as stated: when the listener cannot be set up, adapterStartFailed is
\* emitted once, the process is not started, the listener is not retried
\* and the AdapterState is the one before the call.
C4_StartFailureKeepsState ==
    lastOp = "startAdapter" /\ ListenFailed
    => /\ EmittedSignals(trace) = <<"adapterStartFailed">>
       /\ Kinds(trace, "start") = << >>
       /\ state = pre

\* C4 amended: when the listener cannot be set up, adapterStartFailed is
\* emitted once, the process is not started, the listener is not retried,
\* and the AdapterState is AdapterStarting, which startAdapter set on entry.
C4_StartFailureReported ==
    lastOp = "startAdapter" /\ ListenFailed
    => /\ EmittedSignals(trace) = <<"adapterStartFailed">>
       /\ Kinds(trace, "start") = << >>
       /\ Len(Kinds(trace, "listen")) = 1
       /\ pre = "EngineStarting" => gdbProc = "NotRunning"
       /\ state = "AdapterStarting"

\* startAdapter was called in EngineStarting and the listener failed.
C4_Witness ==
    /\ lastOp = "startAdapter"
    /\ pre = "EngineStarting"
    /\ ListenFailed

---------------------------------------------------------------------------
(* C5 *)

\* C5: startAdapter in EngineStarting with a working listener starts the
\* process once and leaves the state at AdapterStarting without emitting
\* anything; handleGdbStarted sets AdapterStarted and emits adapterStarted
\* once; no other handler sets AdapterStarted or emits adapterStarted.
C5_StartedOnProcessStarted ==
    /\ lastOp = "startAdapter" /\ pre = "EngineStarting" /\ ListenOk
          => /\ Len(Kinds(trace, "start")) = 1
             /\ gdbProc = "Starting"
             /\ state = "AdapterStarting"
             /\ Emits(trace) = << >>
    /\ lastOp = "handleGdbStarted"
          => /\ state = "AdapterStarted"
             /\ EmittedSignals(trace) = <<"adapterStarted">>
    /\ \A i \in 1 .. Len(trace) :
          ( \/ trace[i] = Eff("setState", "AdapterStarted", "", "")
            \/ trace[i].k = "emit" /\ trace[i].a = "adapterStarted" )
          => lastOp = "handleGdbStarted"

\* The process started after startAdapter: the adapter is started.
C5_Witness ==
    /\ lastOp = "handleGdbStarted"
    /\ pre = "AdapterStarting"
    /\ state = "AdapterStarted"
    /\ gdbProc = "Running"

---------------------------------------------------------------------------
(* C6 *)

\* C6: prepareInferior in AdapterStarted sets InferiorPreparing and posts
\* the load command with handleFileExecAndSymbols; a Done response to it
\* sets InferiorPrepared, and nothing else, and emits inferiorPrepared once.
C6_PreparedOnDone ==
    /\ lastOp = "prepareInferior" /\ pre = "AdapterStarted"
          => /\ state = "InferiorPreparing"
             /\ PostedWith(Len(Posts(trace)), LoadCommand, "NoFlags",
                           "handleFileExecAndSymbols")
    /\ lastOp = "handleFileExecAndSymbols" /\ resp.resultClass = "GdbResultDone"
          => /\ state = "InferiorPrepared"
             /\ SetStates(trace) = <<Eff("setState", "InferiorPrepared", "", "")>>
             /\ EmittedSignals(trace) = <<"inferiorPrepared">>

\* The load command was answered Done in InferiorPreparing.
C6_Witness ==
    /\ lastOp = "handleFileExecAndSymbols"
    /\ pre = "InferiorPreparing"
    /\ resp.resultClass = "GdbResultDone"
    /\ state = "InferiorPrepared"

---------------------------------------------------------------------------
(* C7 *)

\* C7: a response to the load command that is not Done sets
\* InferiorPreparationFailed and emits one notification,
\* inferiorPreparationFailed, whose text is "Starting executable failed:\n"
\* followed by the message of the response.
C7_PreparationFailedOnError ==
    lastOp = "handleFileExecAndSymbols" /\ resp.resultClass # "GdbResultDone"
    => /\ state = "InferiorPreparationFailed"
       /\ Emits(trace) =
            << Eff("emit", "inferiorPreparationFailed",
                   "Starting executable failed:\n" \o resp.msg, "") >>

\* The load command was answered with the error "file not found".
C7_Witness ==
    /\ lastOp = "handleFileExecAndSymbols"
    /\ pre = "InferiorPreparing"
    /\ resp = [resultClass |-> "GdbResultError", msg |-> "file not found"]
    /\ state = "InferiorPreparationFailed"
    /\ Emits(trace)[1].b = "Starting executable failed:\nfile not found"

---------------------------------------------------------------------------
(* C8 *)

\* C8: startInferior in InferiorStarting posts -exec-run as a run request
\* with handleExecRun and sets InferiorRunningRequested; after the Running
\* response to it the state is InferiorRunning and nothing was emitted.
C8_RunningOnRunning ==
    /\ lastOp = "startInferior" /\ pre = "InferiorStarting"
          => /\ state = "InferiorRunningRequested"
             /\ Posts(trace) = << Eff("postCommand", "-exec-run",
                                      "RunRequest", "handleExecRun") >>
    /\ lastOp = "handleExecRun" /\ resp.resultClass = "GdbResultRunning"
          => /\ state = "InferiorRunning"
             /\ ~Asserted
             /\ Emits(trace) = << >>

\* The run command was answered Running in InferiorRunningRequested.
C8_Witness ==
    /\ lastOp = "handleExecRun"
    /\ pre = "InferiorRunningRequested"
    /\ resp.resultClass = "GdbResultRunning"
    /\ state = "InferiorRunning"

---------------------------------------------------------------------------
(* C9 *)

\* C9: a response to the run command that is not Running sets
\* InferiorStartFailed and emits one notification, inferiorStartFailed with
\* the message of the response; InferiorRunning is not entered.
C9_StartFailedOnError ==
    lastOp = "handleExecRun" /\ resp.resultClass # "GdbResultRunning"
    => /\ state = "InferiorStartFailed"
       /\ Emits(trace) = <<Eff("emit", "inferiorStartFailed", resp.msg, "")>>
       /\ SetStates(trace) = <<Eff("setState", "InferiorStartFailed", "", "")>>

\* The run command was answered with an error in InferiorRunningRequested.
C9_Witness ==
    /\ lastOp = "handleExecRun"
    /\ pre = "InferiorRunningRequested"
    /\ resp = [resultClass |-> "GdbResultError", msg |-> "file not found"]
    /\ state = "InferiorStartFailed"

---------------------------------------------------------------------------
(* C10 *)

\* C10: shutdown in InferiorRunning, InferiorStopping or InferiorStopped
\* sets InferiorShuttingDown and posts one command, kill with handleKill;
\* it posts no -gdb-exit.
C10_ShutdownPostsKill ==
    lastOp = "shutdown"
       /\ pre \in { "InferiorRunning", "InferiorStopping", "InferiorStopped" }
    => /\ state = "InferiorShuttingDown"
       /\ Posts(trace) =
            <<Eff("postCommand", "kill", "NoFlags", "handleKill")>>
       /\ pending # << >>
       /\ pending[Len(pending)].cb = "handleKill"

\* shutdown was called in InferiorStopped.
C10_Witness ==
    /\ lastOp = "shutdown"
    /\ pre = "InferiorStopped"
    /\ state = "InferiorShuttingDown"

---------------------------------------------------------------------------
(* C11 *)

ShutdownLog(s) == Eff("debugMessage", "PLAIN ADAPTER SHUTDOWN " \o s, "", "")

\* C11: a shutdown that runs in InferiorShutDown does, after closing the
\* output collector, exactly two things: it sets AdapterShuttingDown and
\* posts one command, -gdb-exit with handleExit as its callback, which is
\* then the newest pending command; it posts no kill.
C11_ShutDownPostsExit ==
    \A i \in 1 .. Len(trace) :
       trace[i] = ShutdownLog("InferiorShutDown")
       => /\ SubSeq(trace, i + 1, Len(trace)) =
               << Eff("outputCollectorShutdown", "", "", ""),
                  Eff("setState", "AdapterShuttingDown", "", ""),
                  Eff("postCommand", "-gdb-exit", "NoFlags", "handleExit") >>
          /\ state = "AdapterShuttingDown"
          /\ PostedCmds(trace) = <<"-gdb-exit">>
          /\ pending # << >>
          /\ pending[Len(pending)] =
               [cmd |-> "-gdb-exit", flags |-> "NoFlags", cb |-> "handleExit"]

\* shutdown ran in InferiorShutDown (re-invoked by handleKill after a Done).
C11_Witness ==
    /\ lastOp = "handleKill"
    /\ \E i \in 1 .. Len(trace) : trace[i] = ShutdownLog("InferiorShutDown")
    /\ state = "AdapterShuttingDown"

---------------------------------------------------------------------------
(* C12 *)

\* C12: handleKill on a Done response sets InferiorShutDown, emits
\* inferiorShutDown and then runs shutdown once, which sets
\* AdapterShuttingDown and posts -gdb-exit and nothing more; on any other
\* response it sets InferiorShutdownFailed, emits inferiorShutdownFailed
\* with the message and does not run shutdown.
C12_KillResponse ==
    lastOp = "handleKill"
    => IF resp.resultClass = "GdbResultDone"
       THEN /\ Tail(trace) =
                 << Eff("debugMessage",
                        "PLAIN ADAPTER HANDLE KILL GdbResultDone", "", ""),
                    Eff("setState", "InferiorShutDown", "", ""),
                    Eff("emit", "inferiorShutDown", "", ""),
                    ShutdownLog("InferiorShutDown"),
                    Eff("outputCollectorShutdown", "", "", ""),
                    Eff("setState", "AdapterShuttingDown", "", ""),
                    Eff("postCommand", "-gdb-exit", "NoFlags", "handleExit") >>
            /\ state = "AdapterShuttingDown"
       ELSE /\ Tail(trace) =
                 << Eff("debugMessage",
                        "PLAIN ADAPTER HANDLE KILL " \o resp.resultClass,
                        "", ""),
                    Eff("setState", "InferiorShutdownFailed", "", ""),
                    Eff("emit", "inferiorShutdownFailed",
                        msgInferiorStopFailed(resp.msg), "") >>
            /\ state = "InferiorShutdownFailed"
            /\ Kinds(trace, "outputCollectorShutdown") = << >>

\* The kill was answered with an error in InferiorShuttingDown.
C12_Witness ==
    /\ lastOp = "handleKill"
    /\ pre = "InferiorShuttingDown"
    /\ resp = [resultClass |-> "GdbResultError", msg |-> "file not found"]
    /\ state = "InferiorShutdownFailed"

---------------------------------------------------------------------------
(* C13 *)

\* C13: handleExit on a Done response does nothing: no state change, no
\* notification; on any other response it emits one notification,
\* adapterShutdownFailed with the message, and leaves the state as it was
\* (AdapterShuttingDown when the response arrived there).
C13_ExitResponse ==
    lastOp = "handleExit"
    => /\ state = pre
       /\ Tail(trace) =
            IF resp.resultClass = "GdbResultDone" THEN << >>
            ELSE << Eff("emit", "adapterShutdownFailed",
                        msgGdbStopFailed(resp.msg), "") >>

\* The exit command was answered with something else than Done in
\* AdapterShuttingDown.
C13_Witness ==
    /\ lastOp = "handleExit"
    /\ pre = "AdapterShuttingDown"
    /\ resp.resultClass = "GdbResultExit"
    /\ state = "AdapterShuttingDown"
    /\ EmittedSignals(trace) = <<"adapterShutdownFailed">>

---------------------------------------------------------------------------
(* C14 *)

\* The process exit arrived in AdapterShuttingDown: adapterShutDown is
\* emitted and the state is AdapterShutDown.
ShutDownOnProcessExit ==
    lastOp = "handleGdbFinished" /\ pre = "AdapterShuttingDown"
    => /\ state = "AdapterShutDown"
       /\ trace = << Eff("debugMessage", "GDB PROCESS FINISHED", "", ""),
                     Eff("emit", "adapterShutDown", "", ""),
                     Eff("setState", "AdapterShutDown", "", "") >>

\* C14 as stated: the process exit in AdapterShuttingDown emits
\* adapterShutDown and gives AdapterShutDown, and no step changes the state
\* once it is AdapterShutDown.
C14_ShutDownIsTerminal ==
    /\ []ShutDownOnProcessExit
    /\ [][state = "AdapterShutDown" => state' = "AdapterShutDown"]_vars

\* C14 amended: the process exit in AdapterShuttingDown emits
\* adapterShutDown and gives AdapterShutDown; the state then stays
\* AdapterShutDown under shutdown, interruptInferior and every event, and is
\* left only by a call of startAdapter, prepareInferior or startInferior,
\* which logs the failed assertion and sets its own state.
C14_ShutDownLeftOnlyByCalls ==
    /\ []ShutDownOnProcessExit
    /\ [][ state = "AdapterShutDown" /\ state' # "AdapterShutDown"
           => /\ lastOp' \in { "startAdapter", "prepareInferior",
                               "startInferior" }
              /\ Asserts(trace') # << >>
              /\ state' \in { "AdapterStarting", "InferiorPreparing",
                              "InferiorRunningRequested" } ]_vars

\* The process exited in AdapterShuttingDown.
C14_Witness ==
    /\ lastOp = "handleGdbFinished"
    /\ pre = "AdapterShuttingDown"
    /\ state = "AdapterShutDown"
    /\ gdbProc = "NotRunning"

---------------------------------------------------------------------------
(* C15 *)

FailedStates ==
    { "InferiorPreparationFailed", "InferiorStartFailed",
      "InferiorShutdownFailed" }

\* C15 as stated: shutdown called in InferiorPreparationFailed,
\* InferiorStartFailed or InferiorShutdownFailed is accepted (no assertion)
\* and drives the teardown on: it posts a kill or a -gdb-exit and the state
\* becomes InferiorShuttingDown or AdapterShuttingDown.
C15_ShutdownFromFailed ==
    lastOp = "shutdown" /\ pre \in FailedStates
    => /\ ~Asserted
       /\ PostedCmds(trace) \in { <<"kill">>, <<"-gdb-exit">> }
       /\ state \in { "InferiorShuttingDown", "AdapterShuttingDown" }

---------------------------------------------------------------------------
(* C16 *)

\* C16 as stated: a process error emits adapterCrashed with a reason; a
\* process exit outside AdapterShuttingDown that no process error announced
\* emits adapterCrashed with a reason; neither starts the process again.
C16_UnexpectedExitIsCrash ==
    /\ lastOp = "handleGdbError"
          => /\ EmittedSignals(trace) = <<"adapterCrashed">>
             /\ Emits(trace)[1].b # ""
    /\ lastOp = "handleGdbFinished" /\ pre # "AdapterShuttingDown"
          /\ resp.resultClass = "NormalExit"
          => \E i \in 1 .. Len(Emits(trace)) :
                /\ Emits(trace)[i].a = "adapterCrashed"
                /\ Emits(trace)[i].b # ""
    /\ lastOp \in { "handleGdbError", "handleGdbFinished" }
          => Kinds(trace, "start") = << >> /\ gdbProc # "Starting"

---------------------------------------------------------------------------
(* C17 *)

\* C17 as stated: after interruptInferior was called in InferiorRunning the
\* state has moved on to InferiorStopping or InferiorStopped.
C17_InterruptDrivesStopping ==
    lastOp = "interruptInferior" /\ pre = "InferiorRunning"
    => state \in { "InferiorStopping", "InferiorStopped" }

\* C17 amended: interruptInferior sets no state, in InferiorRunning or
\* elsewhere: the state on return is the state on entry, no failure state
\* is entered, nothing is posted or emitted; no handler of the adapter sets
\* InferiorStopping or InferiorStopped, which are the engine's to set.
C17_InterruptSetsNoState ==
    /\ lastOp = "interruptInferior"
          => /\ state = pre
             /\ SetStates(trace) = << >>
             /\ Posts(trace) = << >>
             /\ Emits(trace) = << >>
    /\ \A i \in 1 .. Len(trace) :
          ( trace[i].k = "setState"
            /\ trace[i].a \in { "InferiorStopping", "InferiorStopped" } )
          => lastOp = "engineSetState"

\* interruptInferior signalled the inferior in InferiorRunning.
C17_Witness ==
    /\ lastOp = "interruptInferior"
    /\ pre = "InferiorRunning"
    /\ state = "InferiorRunning"
    /\ Len(Kinds(trace, "interruptProcess")) = 1

---------------------------------------------------------------------------
(* C18 *)

TryingLog == Eff("debugMessage", "TRYING TO INTERUPT INFERIOR", "", "")

\* C18: interruptInferior without a pid (pid <= 0) only logs, twice; with a
\* pid it signals that pid once and, when the signal fails, logs the
\* failure. A signal is never sent to a pid <= 0, and in no case is the
\* state changed, a command posted or a notification emitted.
C18_InterruptBestEffort ==
    lastOp = "interruptInferior"
    => /\ state = pre
       /\ \/ trace =
               << TryingLog,
                  Eff("debugMessage",
                      "TRYING TO INTERRUPT INFERIOR BEFORE PID WAS OBTAINED",
                      "", "") >>
          \/ \E p \in PidValues :
                /\ p > 0
                /\ \/ trace = << TryingLog,
                                 Eff("interruptProcess", ToString(p), "ok", "") >>
                   \/ trace = << TryingLog,
                                 Eff("interruptProcess", ToString(p),
                                     "failed", ""),
                                 Eff("debugMessage",
                                     "CANNOT INTERRUPT " \o ToString(p),
                                     "", "") >>

\* interruptInferior was called before the pid was known.
C18_Witness ==
    /\ lastOp = "interruptInferior"
    /\ Kinds(trace, "interruptProcess") = << >>
    /\ Len(trace) = 2
    /\ state = pre

---------------------------------------------------------------------------
(* C19 *)

\* The callback the adapter registers with each command it posts.
ExpectedCallback(cmd) ==
    CASE cmd = LoadCommand -> "handleFileExecAndSymbols"
      [] cmd = "-exec-run" -> "handleExecRun"
      [] cmd = "kill" -> "handleKill"
      [] cmd = "-gdb-exit" -> "handleExit"
      [] OTHER -> ""

PostedRecords(t) ==
    [ i \in 1 .. Len(Posts(t)) |->
        [cmd |-> Posts(t)[i].a, flags |-> Posts(t)[i].b, cb |-> Posts(t)[i].c] ]

Dispatched(t) == Kinds(t, "dispatch") # << >>

\* C19: every pending command carries the callback the adapter registered
\* for it (none for -exec-arguments); a result record is dispatched to the
\* callback of the oldest pending command, which leaves the queue, and the
\* commands a handler posts join the queue at its end, so responses reach
\* the callbacks in the order of posting; output that answers no command
\* leaves the queue and the state alone.
C19_FifoDispatch ==
    /\ [](\A i \in 1 .. Len(pending) :
             pending[i].cb = ExpectedCallback(pending[i].cmd))
    /\ [](Dispatched(trace)
             => /\ Len(Kinds(trace, "dispatch")) = 1
                /\ trace[1].k = "dispatch"
                /\ trace[1].c = ExpectedCallback(trace[1].a)
                /\ lastOp = DispatchedTo(trace))
    /\ [](lastOp \in { "handleFileExecAndSymbols", "handleExecRun",
                       "handleKill", "handleExit", "noCallback" }
             => Dispatched(trace))
    /\ [][ /\ Dispatched(trace')
              => /\ pending # << >>
                 /\ trace'[1] = Eff("dispatch", Head(pending).cmd,
                                    Head(pending).flags, Head(pending).cb)
                 /\ pending' = Tail(pending) \o PostedRecords(trace')
           /\ ~Dispatched(trace')
              => pending' = pending \o PostedRecords(trace')
           /\ lastOp' = "asyncOutput"
              => pending' = pending /\ state' = state ]_vars

\* The load command's response reached handleFileExecAndSymbols although
\* -exec-arguments, posted before it without a callback, was pending too.
C19_Witness ==
    /\ lastOp = "handleFileExecAndSymbols"
    /\ startParameters.processArgs # << >>
    /\ pre = "InferiorPreparing"
    /\ trace[1] = Eff("dispatch", LoadCommand, "NoFlags",
                      "handleFileExecAndSymbols")

---------------------------------------------------------------------------
(* C20 *)

\* A callback of the adapter was given a response that is not its success.
FailureResponse ==
    \/ lastOp \in { "handleFileExecAndSymbols", "handleKill", "handleExit" }
          /\ resp.resultClass # "GdbResultDone"
    \/ lastOp = "handleExecRun" /\ resp.resultClass # "GdbResultRunning"

\* The one notification a failure response is reported with.
FailureNotification ==
    CASE lastOp = "handleFileExecAndSymbols" ->
            Eff("emit", "inferiorPreparationFailed",
                "Starting executable failed:\n" \o resp.msg, "")
      [] lastOp = "handleExecRun" ->
            Eff("emit", "inferiorStartFailed", resp.msg, "")
      [] lastOp = "handleKill" ->
            Eff("emit", "inferiorShutdownFailed",
                msgInferiorStopFailed(resp.msg), "")
      [] lastOp = "handleExit" ->
            Eff("emit", "adapterShutdownFailed",
                msgGdbStopFailed(resp.msg), "")

\* C20 as stated: every failure response is reported by one notification
\* with the message and moves the state to a *Failed state.
C20_EveryFailureSetsFailedState ==
    FailureResponse
    => /\ Emits(trace) = <<FailureNotification>>
       /\ state \in FailedStates

\* C20 amended: every failure response is reported by one notification
\* with the message; for the load, run and kill commands the state moves to
\* InferiorPreparationFailed, InferiorStartFailed, InferiorShutdownFailed;
\* for the exit command no state is set and the state stays as it was.
C20_FailureReported ==
    FailureResponse
    => /\ Emits(trace) = <<FailureNotification>>
       /\ lastOp = "handleFileExecAndSymbols"
             => state = "InferiorPreparationFailed"
       /\ lastOp = "handleExecRun" => state = "InferiorStartFailed"
       /\ lastOp = "handleKill" => state = "InferiorShutdownFailed"
       /\ lastOp = "handleExit" => state = pre /\ SetStates(trace) = << >>
       /\ lastOp # "handleExit" => Len(SetStates(trace)) = 1

\* The exit command was answered with an error in AdapterShuttingDown.
C20_Witness ==
    /\ lastOp = "handleExit"
    /\ pre = "AdapterShuttingDown"
    /\ resp = [resultClass |-> "GdbResultError", msg |-> "file not found"]
    /\ state = "AdapterShuttingDown"
    /\ Emits(trace) = <<FailureNotification>>

---------------------------------------------------------------------------
(* C21 *)

\* C21: a handler that was given a failure response, startAdapter when the
\* listener failed and handleGdbError post no command and start no process;
\* commands are posted only by prepareInferior, startInferior and shutdown
\* called by the engine and by handleKill after a Done, and the process is
\* started only by startAdapter.
C21_NoTransparentRetry ==
    /\ ( \/ FailureResponse
         \/ lastOp = "startAdapter" /\ ListenFailed
         \/ lastOp = "handleGdbError" )
          => /\ Posts(trace) = << >>
             /\ Kinds(trace, "start") = << >>
             /\ Kinds(trace, "listen") \in { << >>, <<Eff("listen", "failed", "", "")>> }
    /\ Posts(trace) # << >>
          => \/ lastOp \in { "prepareInferior", "startInferior", "shutdown" }
             \/ lastOp = "handleKill" /\ resp.resultClass = "GdbResultDone"
    /\ Kinds(trace, "start") # << >> => lastOp = "startAdapter"

\* The load command failed and left nothing pending.
C21_Witness ==
    /\ lastOp = "handleFileExecAndSymbols"
    /\ resp.resultClass = "GdbResultError"
    /\ state = "InferiorPreparationFailed"
    /\ pending = << >>
    /\ Posts(trace) = << >>

---------------------------------------------------------------------------
(* C22 *)

CollectorShutdown == Eff("outputCollectorShutdown", "", "", "")

\* Every run of shutdown (its log line) is followed at once by the shutdown
\* of the output collector, before any state is set or command posted.
ShutdownClosesListenerFirst ==
    /\ \A i \in 1 .. Len(trace) :
          ( trace[i].k = "debugMessage"
            /\ \E s \in AdapterStates : trace[i] = ShutdownLog(s) )
          => i < Len(trace) /\ trace[i + 1] = CollectorShutdown
    /\ lastOp = "shutdown"
          => /\ trace[1] = ShutdownLog(pre)
             /\ trace[2] = CollectorShutdown
             /\ ~listening

\* C22 as stated: the listener is down whenever the state is AdapterShutDown
\* or a *Failed state, after a process error and after a start failure, and
\* every shutdown shuts the listener down first.
C22_ListenerDownOnEveryExit ==
    /\ ShutdownClosesListenerFirst
    /\ state \in FailedStates \cup { "AdapterShutDown" } => ~listening
    /\ lastOp = "handleGdbError" => ~listening
    /\ lastOp = "startAdapter" /\ ListenFailed => ~listening

\* C22 amended: every shutdown, in whatever state, shuts the listener down
\* first, so the listener is down in AdapterShuttingDown and AdapterShutDown
\* and after a shutdown called in a *Failed state; it is down after a start
\* failure (it was never up). Entering a *Failed state or a process error
\* does not by itself shut it down.
C22_ListenerDownByShutdown ==
    /\ ShutdownClosesListenerFirst
    /\ state \in { "AdapterShuttingDown", "AdapterShutDown" } => ~listening
    /\ lastOp = "startAdapter" /\ ListenFailed => ~listening
    /\ Kinds(trace, "outputCollectorShutdown") # << >>
          => \/ lastOp = "shutdown"
             \/ lastOp = "handleKill" /\ resp.resultClass = "GdbResultDone"

\* shutdown was called in a *Failed state and shut the listener down.
C22_Witness ==
    /\ lastOp = "shutdown"
    /\ pre \in FailedStates
    /\ Asserted
    /\ trace[2] = CollectorShutdown
    /\ ~listening

---------------------------------------------------------------------------
(* C23 *)

\* C23: every chunk the side channel receives is handed to the engine's
\* readDebugeeOutput once, as it is and in the order of arrival, so the
\* debuggee output is the sequence of chunks received; a delivery changes
\* nothing of the adapter, whatever its state, and nothing else touches
\* the debuggee output.
C23_OutputForwarded ==
    /\ [](debuggeeOutput = sideChannel)
    /\ [][sideChannel' # sideChannel
            => /\ adapterVars' = adapterVars
               /\ \E bytes \in Chunks :
                     /\ sideChannel' = Append(sideChannel, bytes)
                     /\ debuggeeOutput' = Append(debuggeeOutput, bytes)]_vars
    /\ [][sideChannel' = sideChannel
            => debuggeeOutput' = debuggeeOutput]_vars

\* Two different chunks were forwarded, the last one while the inferior ran.
C23_Witness ==
    /\ debuggeeOutput = << "out", "err\n" >>
    /\ sideChannel = << "out", "err\n" >>
    /\ state = "InferiorRunning"
    /\ listening

---------------------------------------------------------------------------
(* C28 *)

ArgumentsCommand ==
    "-exec-arguments " \o join(startParameters.processArgs, " ")

\* C28: prepareInferior posts -exec-arguments, without a callback, exactly
\* when there are process arguments, and then the load command with
\* handleFileExecAndSymbols; it posts nothing else, and no step changes the
\* start parameters.
C28_ArgumentsBeforeLoad ==
    /\ [](lastOp = "prepareInferior"
            => Posts(trace) =
                 ( IF startParameters.processArgs # << >>
                   THEN << Eff("postCommand", ArgumentsCommand, "NoFlags", "") >>
                   ELSE << >> )
                 \o << Eff("postCommand", LoadCommand, "NoFlags",
                           "handleFileExecAndSymbols") >>)
    /\ [][startParameters' = startParameters]_vars

\* prepareInferior ran with two process arguments.
C28_Witness ==
    /\ lastOp = "prepareInferior"
    /\ startParameters.processArgs = << "-v", "x" >>
    /\ PostedCmds(trace)[1] = "-exec-arguments -v x"
    /\ Len(Posts(trace)) = 2

---------------------------------------------------------------------------
(* C29 *)

\* The AdapterState when the handler reached the i-th entry of its trace.
StateAt(i) ==
    LET sets == { j \in 1 .. i - 1 : trace[j].k = "setState" }
    IN  IF sets = { } THEN pre
        ELSE trace[CHOOSE j \in sets : \A k \in sets : k <= j].a

\* The state each of these notifications reports.
NotifiedState(signal) ==
    CASE signal = "adapterStarted" -> "AdapterStarted"
      [] signal = "inferiorPrepared" -> "InferiorPrepared"
      [] signal = "inferiorPreparationFailed" -> "InferiorPreparationFailed"
      [] signal = "inferiorStartFailed" -> "InferiorStartFailed"
      [] signal = "inferiorShutDown" -> "InferiorShutDown"
      [] signal = "inferiorShutdownFailed" -> "InferiorShutdownFailed"

\* C29: when adapterStarted, inferiorPrepared, inferiorPreparationFailed,
\* inferiorStartFailed, inferiorShutDown or inferiorShutdownFailed is
\* emitted the AdapterState is already the state it reports, and
\* inferiorShutDown is emitted before -gdb-exit is posted.
C29_StateBeforeNotification ==
    /\ \A i \in 1 .. Len(trace) :
          ( trace[i].k = "emit"
            /\ trace[i].a \in { "adapterStarted", "inferiorPrepared",
                                "inferiorPreparationFailed",
                                "inferiorStartFailed", "inferiorShutDown",
                                "inferiorShutdownFailed" } )
          => StateAt(i) = NotifiedState(trace[i].a)
    /\ \A i, j \in 1 .. Len(trace) :
          ( /\ trace[i].k = "emit" /\ trace[i].a = "inferiorShutDown"
            /\ trace[j].k = "postCommand" /\ trace[j].a = "-gdb-exit" )
          => i < j
    /\ lastOp = "handleKill" /\ resp.resultClass = "GdbResultDone"
          => /\ EmittedSignals(trace) = <<"inferiorShutDown">>
             /\ PostedCmds(trace) = <<"-gdb-exit">>

\* The kill was answered Done: inferiorShutDown was emitted and -gdb-exit
\* posted by the same handler.
C29_Witness ==
    /\ lastOp = "handleKill"
    /\ resp.resultClass = "GdbResultDone"
    /\ EmittedSignals(trace) = <<"inferiorShutDown">>
    /\ PostedCmds(trace) = <<"-gdb-exit">>
    /\ pre = "InferiorShuttingDown"

---------------------------------------------------------------------------
(* C30 *)

\* C30 as stated: an adapter posts kill at most once and -gdb-exit at most
\* once, and -gdb-exit is never posted while a kill is pending.
C30_KillAndExitOnce ==
    /\ killsPosted <= 1
    /\ exitsPosted <= 1
    /\ ~ \E i, j \in 1 .. Len(pending) :
            i < j /\ pending[i].cmd = "kill" /\ pending[j].cmd = "-gdb-exit"

---------------------------------------------------------------------------
(* Vocabulary of the KeilParser properties *)

\* The lines of the input that arrived on channel ch, in order.
LinesOn(ch) ==
    LET on == SelectSeq(input, LAMBDA it : it.channel = ch)
    IN  [i \in 1 .. Len(on) |-> on[i].line]

\* The item is a line that its channel's handler takes for a diagnostic.
Recognised(it) ==
    LET lne == rightTrimmed(it.line)
    IN  \/ /\ it.channel = "stderr"
           /\ reArmLocated(lne).hasMatch \/ reArmPlain(lne).hasMatch
        \/ /\ it.channel = "stdout"
           /\ \/ reMcs51Compiler(lne).hasMatch
              \/ reMcs51Assembler(lne).hasMatch
              \/ reMcs51Fatal(lne).hasMatch
              \/ reToolFatal(lne).hasMatch

\* The item is a line that begins with a space.
Continuation(it) ==
    it.channel # "flush" /\ startsWithSpace(rightTrimmed(it.line))

Diagnostics == SelectSeq(input, Recognised)

\* The message keyword of a diagnostic line ("" where the pattern has none).
Keyword(it) ==
    LET lne == rightTrimmed(it.line)
    IN  CASE it.channel = "stderr" /\ reArmLocated(lne).hasMatch ->
                reArmLocated(lne).MessageType
          [] it.channel = "stderr" /\ reArmPlain(lne).hasMatch ->
                reArmPlain(lne).MessageType
          [] it.channel = "stdout" /\ reMcs51Compiler(lne).hasMatch ->
                reMcs51Compiler(lne).MessageType
          [] it.channel = "stdout" /\ reMcs51Assembler(lne).hasMatch ->
                reMcs51Assembler(lne).MessageType
          [] it.channel = "stdout" /\ reMcs51Fatal(lne).hasMatch ->
                reMcs51Fatal(lne).MessageType
          [] OTHER -> ""

\* The file and line a diagnostic line names (none: "" and -1), and the
\* first line of its description.
Located(it) ==
    LET lne == rightTrimmed(it.line)
    IN  CASE it.channel = "stderr" /\ reArmLocated(lne).hasMatch ->
                [file |-> fromUserInput(reArmLocated(lne).FilePath),
                 line |-> reArmLocated(lne).LineNumber,
                 description |-> reArmLocated(lne).Description]
          [] it.channel = "stderr" /\ reArmPlain(lne).hasMatch ->
                [file |-> "", line |-> -1,
                 description |-> reArmPlain(lne).Description]
          [] it.channel = "stdout" /\ reMcs51Compiler(lne).hasMatch ->
                [file |-> fromUserInput(reMcs51Compiler(lne).FilePath),
                 line |-> reMcs51Compiler(lne).LineNumber,
                 description |-> reMcs51Compiler(lne).MessageCode \o ": "
                                   \o reMcs51Compiler(lne).MessageText]
          [] it.channel = "stdout" /\ reMcs51Assembler(lne).hasMatch ->
                [file |-> fromUserInput(reMcs51Assembler(lne).FilePath),
                 line |-> reMcs51Assembler(lne).LineNumber,
                 description |-> reMcs51Assembler(lne).MessageCode \o ": "
                                   \o reMcs51Assembler(lne).MessageText]
          [] it.channel = "stdout" /\ reMcs51Fatal(lne).hasMatch ->
                [file |-> "", line |-> -1,
                 description |-> reMcs51Fatal(lne).MessageDescription]
          [] it.channel = "stdout" /\ reToolFatal(lne).hasMatch ->
                [file |-> "", line |-> -1,
                 description |-> "Assembler fatal error"]

Pending == ~isNull(parser.m_lastTask)

---------------------------------------------------------------------------
(* C24 *)

\* C24: the lines handed to the next parser on stdout are the lines that
\* arrived on stdout, unchanged and in order, and the same on stderr,
\* whether recognised or not; there are never more tasks (emitted or
\* pending) than recognised lines, so an unrecognised line makes no task.
C24_PassThrough ==
    /\ parser.childStdOut = LinesOn("stdout")
    /\ parser.childStdErr = LinesOn("stderr")
    /\ Len(parser.tasks) + (IF Pending THEN 1 ELSE 0) <= Len(Diagnostics)

\* An unrecognised line and a diagnostic went through stderr, an indented
\* line with trailing blanks through stdout.
C24_Witness ==
    /\ parser.childStdErr =
          << "Sometext",
             "\"c:\\foo\\main.c\", line 63: Warning: #1234: Some warning" >>
    /\ parser.childStdOut = << "      int f;  " >>
    /\ Len(Diagnostics) = 1

---------------------------------------------------------------------------
(* C25 *)

\* C25 as stated: when a line that begins with a space directly follows a
\* diagnostic line on the same channel, it is appended to the pending
\* diagnostic's description after a newline and the line count is 2; a
\* flush then emits that one task with line count 2.
C25_ContinuationAppended ==
    /\ ( /\ Len(input) = 2
         /\ Recognised(input[1])
         /\ Continuation(input[2])
         /\ input[2].channel = input[1].channel )
       => /\ Pending
          /\ parser.m_lastTask.description =
                Located(input[1]).description \o "\n"
                    \o rightTrimmed(input[2].line)
          /\ parser.m_lines = 2
          /\ parser.tasks = << >>
    /\ ( /\ Len(input) = 3
         /\ Recognised(input[1])
         /\ Continuation(input[2])
         /\ input[2].channel = input[1].channel
         /\ input[3].channel = "flush" )
       => /\ Len(parser.tasks) = 1
          /\ parser.tasks[1].task.description =
                Located(input[1]).description \o "\n"
                    \o rightTrimmed(input[2].line)
          /\ parser.tasks[1].linkedOutputLines = 2

---------------------------------------------------------------------------
(* C26 *)

\* What identifies the diagnostic a task was made from.
Core(t) == [file |-> t.file, line |-> t.line]

\* C26: the tasks emitted so far, with the pending one, are the diagnostic
\* lines fed so far, one task each and in input order; after a flush or a
\* line that is neither a diagnostic nor indented nothing is pending, so
\* every diagnostic has been emitted; the list of emitted tasks only grows
\* at its end, first by the pending task and then by at most the task of
\* the line that arrived.
C26_OneTaskPerDiagnostic ==
    /\ [](/\ Len(parser.tasks) + (IF Pending THEN 1 ELSE 0) = Len(Diagnostics)
          /\ \A i \in 1 .. Len(parser.tasks) :
                /\ ~isNull(parser.tasks[i].task)
                /\ Core(parser.tasks[i].task) = Core(Located(Diagnostics[i]))
          /\ Pending => Core(parser.m_lastTask)
                          = Core(Located(Diagnostics[Len(Diagnostics)]))
          /\ ( /\ input # << >>
               /\ ~Recognised(input[Len(input)])
               /\ ~Continuation(input[Len(input)]) )
             => ~Pending /\ Len(parser.tasks) = Len(Diagnostics))
    /\ [][ /\ Len(parser'.tasks) >= Len(parser.tasks)
           /\ SubSeq(parser'.tasks, 1, Len(parser.tasks)) = parser.tasks
           /\ Len(parser'.tasks) - Len(parser.tasks)
                 <= (IF Pending THEN 1 ELSE 0)
                    + (IF Recognised(input'[Len(input')]) THEN 1 ELSE 0)
           /\ Pending /\ Len(parser'.tasks) > Len(parser.tasks)
                 => parser'.tasks[Len(parser.tasks) + 1].task
                      = parser.m_lastTask
         ]_vars

\* A pending diagnostic was replaced by the next one and both were emitted
\* by the flush at the end.
C26_Witness ==
    /\ Len(input) = 3
    /\ input[1].channel = "stderr" /\ Recognised(input[1])
    /\ input[2].channel = "stdout" /\ Recognised(input[2])
    /\ input[2].line = "*** FATAL ERROR L456: Some error"
    /\ input[3].channel = "flush"
    /\ Len(parser.tasks) = 2
    /\ ~Pending

---------------------------------------------------------------------------
(* C27 *)

MsgTypes ==
    { "Warning", "WARNING", "Error", "ERROR", "Fatal error", "FATAL ERROR",
      "warning", "Fatal Error", "Note", "" }

\* The task of the i-th diagnostic line: emitted, or still pending.
TaskOf(i) ==
    IF i <= Len(parser.tasks) THEN parser.tasks[i].task
    ELSE parser.m_lastTask

\* C27: taskType gives Warning exactly for Warning and WARNING, Error
\* exactly for Error, ERROR, Fatal error and FATAL ERROR, Unknown for every
\* other keyword; the task of a diagnostic line has the type of its
\* keyword (Error for the A51/C51 fatal-error lines), and a diagnostic
\* without a file location has an empty file name and line -1.
C27_TaskTypes ==
    /\ \A k \in MsgTypes :
          /\ taskType(k) = "Warning" <=> k \in { "Warning", "WARNING" }
          /\ taskType(k) = "Error"
                <=> k \in { "Error", "ERROR", "Fatal error", "FATAL ERROR" }
          /\ taskType(k) \in { "Warning", "Error", "Unknown" }
    /\ \A i \in 1 .. Len(Diagnostics) :
          LET it == Diagnostics[i]
              t == TaskOf(i)
          IN  /\ Keyword(it) \in { "Warning", "WARNING" } => t.type = "Warning"
              /\ Keyword(it) \in { "Error", "ERROR", "Fatal error",
                                   "FATAL ERROR" } => t.type = "Error"
              /\ reToolFatal(rightTrimmed(it.line)).hasMatch
                    => t.type = "Error"
              /\ t.type # "Unknown"
              /\ ( \/ reArmPlain(rightTrimmed(it.line)).hasMatch
                   \/ reMcs51Fatal(rightTrimmed(it.line)).hasMatch
                   \/ reToolFatal(rightTrimmed(it.line)).hasMatch )
                 => t.file = "" /\ t.line = -1

\* A WARNING of the MCS51 compiler and a fatal error of the assembler were
\* emitted.
C27_Witness ==
    /\ Len(parser.tasks) = 2
    /\ Diagnostics[1].line
          = "*** WARNING C123 IN LINE 13 OF c:\\foo.c: Some warning"
    /\ parser.tasks[1].task.type = "Warning"
    /\ parser.tasks[1].task.file = "c:/foo.c"
    /\ Diagnostics[2].line = "A51 FATAL ERROR -"
    /\ parser.tasks[2].task.type = "Error"
    /\ parser.tasks[2].task.line = -1

---------------------------------------------------------------------------
(* C31 *)

\* C31 as stated: shutdown called in InferiorRunningRequested posts kill and
\* enters InferiorShuttingDown without an assertion; and when the answer to
\* the run command arrives in InferiorShuttingDown, Running or not, the
\* state stays InferiorShuttingDown and inferiorStartFailed is not emitted.
C31_LateRunResponseIgnored ==
    /\ lastOp = "shutdown" /\ pre = "InferiorRunningRequested"
          => /\ state = "InferiorShuttingDown"
             /\ PostedCmds(trace) = <<"kill">>
             /\ ~Asserted
    /\ lastOp = "handleExecRun" /\ pre = "InferiorShuttingDown"
          => /\ state = "InferiorShuttingDown"
             /\ EmittedSignals(trace) = << >>

---------------------------------------------------------------------------
(* C32 *)

\* The range covers only text of the description: it ends within it.
WithinDescription(fr, description) == fr.start + fr.length <= Len(description)

\* C32 as stated: when a continuation line has been appended to the pending
\* task, the range recorded for it starts at the index (counted from 0) of
\* the first appended character, is as long as the appended text and ends
\* within the description; the ranges of every emitted task end within its
\* description.
C32_FormatCoversContinuation ==
    /\ ( /\ input # << >>
         /\ Continuation(input[Len(input)])
         /\ Pending )
       => LET desc == rightTrimmed(input[Len(input)].line)
              task == parser.m_lastTask
              fr == task.formats[Len(task.formats)]
          IN  /\ task.formats # << >>
              /\ fr.start = Len(task.description) - Len(desc)
              /\ fr.length = Len(desc)
              /\ WithinDescription(fr, task.description)
    /\ \A i \in 1 .. Len(parser.tasks) :
          \A j \in 1 .. Len(parser.tasks[i].task.formats) :
             WithinDescription(parser.tasks[i].task.formats[j],
                               parser.tasks[i].task.description)

---------------------------------------------------------------------------
(* C33 *)

\* The parser after it was fed the items, one after the other, from its
\* state after construction.
RECURSIVE Run(_)
Run(items) ==
    IF items = << >>
    THEN [m_lastTask |-> NullTask, m_lines |-> 0, tasks |-> << >>,
          childStdOut |-> << >>, childStdErr |-> << >>]
    ELSE LET k == Run(SubSeq(items, 1, Len(items) - 1))
             it == items[Len(items)]
         IN  CASE it.channel = "stdout" -> stdOutput(k, it.line)
               [] it.channel = "stderr" -> stdError(k, it.line)
               [] it.channel = "flush" -> doFlush(k)

\* The input without its i-th item.
Without(i) == SubSeq(input, 1, i - 1) \o SubSeq(input, i + 1, Len(input))

\* The i-th item is an indented line that arrived while no task was pending.
Orphan(i) ==
    /\ Continuation(input[i])
    /\ isNull(Run(SubSeq(input, 1, i - 1)).m_lastTask)

\* An indented line that arrives while no task is pending emits no task and
\* leaves none pending, and the tasks emitted and the task pending later
\* (description, formats, line count) are what they are without that line.
OrphanHasNoEffect ==
    /\ parser = Run(input)
    /\ \A i \in 1 .. Len(input) :
          Orphan(i)
          => LET before == Run(SubSeq(input, 1, i - 1))
                 after == Run(SubSeq(input, 1, i))
                 without == Run(Without(i))
             IN  /\ after.tasks = before.tasks
                 /\ isNull(after.m_lastTask)
                 /\ parser.tasks = without.tasks
                 /\ isNull(parser.m_lastTask) = isNull(without.m_lastTask)
                 /\ Pending => /\ parser.m_lastTask = without.m_lastTask
                               /\ parser.m_lines = without.m_lines

\* C33 as stated: such a line has no effect, and whenever no task is
\* pending the line counter is 0.
C33_OrphanLineLeavesNoTrace ==
    /\ OrphanHasNoEffect
    /\ ~Pending => parser.m_lines = 0

\* C33 amended: such a line has no effect on the tasks; the line counter of
\* a pending task is 1 plus the number of its continuation lines, whatever
\* it was before the task was made. (With no task pending the counter is
\* whatever the indented lines since the last flush made it.)
C33_OrphanLineHasNoEffect ==
    /\ OrphanHasNoEffect
    /\ Pending => parser.m_lines = 1 + Len(parser.m_lastTask.formats)
    /\ \A i \in 1 .. Len(parser.tasks) :
          parser.tasks[i].linkedOutputLines
             = 1 + Len(parser.tasks[i].task.formats)

\* An indented line arrived first, then a diagnostic with a continuation
\* line: the pending task counts 2 lines.
C33_Witness ==
    /\ Len(input) = 3
    /\ Orphan(1)
    /\ Recognised(input[2])
    /\ Continuation(input[3])
    /\ Pending
    /\ parser.m_lines = 2
    /\ Len(parser.m_lastTask.formats) = 1

---------------------------------------------------------------------------
(* C34 *)

\* The calls of ICore::openFiles that openProject made.
OpenFilesCalls == Kinds(page.effects, "openFiles")

\* The project was copied to a writable location.
ProjectCopied ==
    \E i \in 1 .. Len(page.effects) :
        /\ page.effects[i].k = "copyRecursively"
        /\ page.effects[i].a = exampleItem.projectPath.dir
        /\ page.effects[i].c = TRUE

\* Where a file of the example is once openProject opens the project: in
\* the copy when the project was copied and the file is in the project
\* directory, where it was otherwise.
Located34(path) ==
    IF ProjectCopied /\ path.dir = exampleItem.projectPath.dir
    THEN Path(DestBaseDir \o "/" \o dirName(path.dir), path.name)
    ELSE path

\* The copy-to-writable-location dialog was shown and yielded no path.
DialogYieldsNoPath ==
    /\ desktop.needsCopy
    /\ \/ desktop.code = "Rejected"
       \/ desktop.code = "Copy" /\ (desktop.destExists \/ ~desktop.copyOk)

\* openProject gives up before the project is open.
OpenProjectFails ==
    \/ isEmpty(exampleItem.projectPath)
    \/ ~desktop.exists
    \/ DialogYieldsNoPath
    \/ ~desktop.openProjectOk

\* C34: openProject calls openFiles at most once, and only after
\* ProjectExplorerPlugin::openProject succeeded; when the example has a main
\* file, the list it opens has the main file once, as its last element,
\* after the other files in the order the example lists them; when the
\* project path is empty, the project file does not exist, the dialog
\* yields no path or the project does not open, it opens no file, activates
\* no mode and requests no help.
C34_MainFileOpenedLast ==
    page.called
    => /\ Len(OpenFilesCalls) <= 1
       /\ OpenFilesCalls # << >>
             => /\ \E i, j \in 1 .. Len(page.effects) :
                      /\ i < j
                      /\ page.effects[i].k = "openProject"
                      /\ page.effects[i].b = TRUE
                      /\ page.effects[j].k = "openFiles"
                /\ \A i \in 1 .. Len(page.effects) :
                      page.effects[i].k = "openProject"
                      => page.effects[i].b = TRUE
                /\ ~isEmpty(exampleItem.mainFile)
                      => LET files == OpenFilesCalls[1].a
                             main == Located34(exampleItem.mainFile)
                             others == SelectSeq(exampleItem.filesToOpen,
                                          LAMBDA f : f # exampleItem.mainFile)
                         IN  /\ files # << >>
                             /\ files[Len(files)] = main
                             /\ Count(files, main) = 1
                             /\ SubSeq(files, 1, Len(files) - 1)
                                  = [i \in 1 .. Len(others) |->
                                        Located34(others[i])]
       /\ OpenProjectFails
             => /\ OpenFilesCalls = << >>
                /\ Kinds(page.effects, "activateMode") = << >>
                /\ Kinds(page.effects, "showHelpUrl") = << >>
       /\ ~OpenProjectFails => Len(OpenFilesCalls) = 1

\* The example lists its main file first and another file after it; the
\* project was copied and opened, and the copy's main file was opened last.
C34_Witness ==
    /\ page.called
    /\ exampleItem.filesToOpen = << MainFile, Path(ProjectDir, "calc.h") >>
    /\ exampleItem.mainFile = MainFile
    /\ ProjectCopied
    /\ OpenFilesCalls # << >>
    /\ OpenFilesCalls[1].a = << Path("/home/u/calc", "calc.h"),
                                Path("/home/u/calc", "main.cpp") >>

====
